---- MODULE Spec2Model ----
(***************************************************************************)
(* State-machine model of the PIK codec sources (pik.cc, padded_bytes.cc,  *)
(* image.h, noise.cc, butteraugli_comparator.cc).  The module holds one    *)
(* specification per component:                                            *)
(*   SpecPB      PaddedBytes (padded_bytes.cc)                             *)
(*   SpecImg     Image / Image3 (image.h)                                  *)
(*   SpecDec     PikToPixels (pik.cc)                                      *)
(*   SpecEnc     PixelsToPik / OpsinToPik (pik.cc)                         *)
(*   SpecTs      ScaleToTargetSize / CompressToTargetSize (pik.cc)         *)
(*   SpecCts     CompressToTargetSize alone, with its thread's fairness    *)
(*   SpecSearch  FindBestQuantization / FindBestQuantizationHQ (pik.cc)    *)
(*   SpecHQ      FindBestQuantizationHQ alone, with its thread's fairness  *)
(*   SpecNoise   GetNoiseParameter / EncodeNoise / DecodeNoise (noise.cc)  *)
(*   SpecYtob    FindBestYToBCorrelation / FindBestYToXCorrelation         *)
(*   SpecRow     BytesPerRow (image.h)                                     *)
(*   SpecPure    AdjustQuantVal, DistToPeakMap as functions (pik.cc)       *)
(*   SpecAvoid   Image::Avoid2K under concurrent constructors (image.h)    *)
(* Every specification shares the module's variables; a component that a  *)
(* specification does not exercise stays in its idle state.                *)
(***************************************************************************)
EXTENDS Integers, Sequences, FiniteSets, TLC

VARIABLES
  \* ---- PaddedBytes (padded_bytes.cc) ----
  size_,          \* PaddedBytes::size_
  padded_size_,   \* PaddedBytes::padded_size_
  data_,          \* PaddedBytes::data_  (sequence of padded_size_ bytes)
  pb_last,        \* history: the last PaddedBytes operation and the state before it
  pb_writes,      \* number of client writes made so far (bounded)
  \* ---- Image3 (image.h) ----
  images,         \* two Image3 objects; images[k][c] is plane c of object k
  unchecked,      \* unchecked[k]: a plane of k was replaced through MutablePlane
                  \* and CheckSizesSame has not run since
  img_aborted,    \* a PIK_CHECK / PIK_ASSERT failed: the process aborted
  \* ---- PikToPixels (pik.cc) ----
  dec_pc,         \* position inside PikToPixelsT
  dec_in,         \* the call: overload, pixel type, parameters, what the
                  \* compressed bytes hold and how the external decoders answer
  header,         \* Header filled by LoadHeader
  alpha_bit_depth,\* local alpha_bit_depth of PikToPixelsT
  temp,           \* the MetaImage<T> the decoder fills (color set, alpha depth)
  image_assigned, \* Image3 overload: *image was assigned
  dec_result,     \* "none" while running, then "ok" or the failure message
  \* ---- PixelsToPik / OpsinToPik (pik.cc) ----
  enc_pc,         \* position inside PixelsToPikT / OpsinToPik
  enc_in,         \* the call: entry point, image, parameters, external answers
  enc_header,     \* the Header PixelsToPikT builds (or OpsinToPik is given)
  enc_target,     \* params.target_size as OpsinToPik sees it
  enc_steps,      \* the pipeline steps executed so far, in order
  enc_result,     \* "none" while running, then "ok" or the failure message
  \* ---- Quantizer (quantizer.h) ----
  quantizer,      \* the Quantizer's state: DC level and AC level per block
  \* ---- ScaleToTargetSize / CompressToTargetSize (pik.cc) ----
  ts_pc,          \* position inside the target-size branch of OpsinToPik
  ts_in,          \* which search runs, and target_size
  measured,       \* history: quantizer states encoded so far, with the size
  ts_entry,       \* history: the quantizer state on entry to the search
  ts_i,           \* loop counter i (trials made, in CompressToTargetSize)
  quant_dc,       \* ScaleToTargetSize: quant_dc from GetQuantField
  quant_ac,       \* ScaleToTargetSize: quant_ac from GetQuantField
  scale_good, scale_bad, found_candidate,
  dist_good, dist_bad, quant_dc_good, quant_ac_good,
  ts_encoded,     \* size of the coefficient stream OpsinToPik appends
  ts_result,      \* "none" while running, then "ok"
  \* ---- FindBestQuantization / FindBestQuantizationHQ (pik.cc) ----
  sr_pc,          \* position inside the search
  sr_in,          \* the call: which search, target distance, parameters
  quant_field, best_quant_field, best_butteraugli, tile_distmap,
  distance,       \* comparator.distance()
  visited,        \* history: the distances the comparisons produced
  fbq_i,          \* FindBestQuantization: loop index i
  outer_iter, butteraugli_iter, search_radius, quant_ceil,
  hq_quant_dc,    \* FindBestQuantizationHQ: quant_dc
  num_stalling_iters,
  changed,        \* FindBestQuantizationHQ: changed
  qmax,           \* FindBestQuantizationHQ: qmax of line 370
  sr_last,        \* history: what the last iteration of FindBestQuantization
                  \* started from, and what it read
  best_installed, \* history: what the quantizer held when Compare measured
                  \* the field that is now best_quant_field
  \* ---- noise parameters (noise.cc) ----
  noise_pc,       \* position in GetNoiseParameter / EncodeNoise / DecodeNoise
  noise_in,       \* SAD threshold, quality_coef, the optimizer's fit
  noise_params,   \* NoiseParams the encoder holds
  noise_bits,     \* the storage EncodeNoise returns, as bits
  noise_read,     \* bits DecodeNoise consumed
  noise_out,      \* NoiseParams DecodeNoise filled
  \* ---- FindBestYToBCorrelation (pik.cc) ----
  ytob_pc,        \* position in FindBestYToBCorrelation
  ytob_in,        \* the scaled AC coefficients of each tile
  ytob_dc,        \* *ytob_dc
  ytob_map,       \* ytob_map, the tiles filled so far
  ytox_pc,        \* position in FindBestYToXCorrelation
  ytox_dc,        \* *ytox_dc
  ytox_map,       \* ytox_map, the tiles filled so far
  \* ---- BytesPerRow (image.h) ----
  row_pc,         \* before or after the call
  row_in,         \* valid_bytes and the build's constants
  bytes_per_row,  \* the value returned
  \* ---- AdjustQuantVal, DistToPeakMap as functions (pik.cc) ----
  fn_pc,          \* before or after the call
  fn_in,          \* the function called and its arguments
  fn_out,         \* what it returned
  \* ---- Image::Avoid2K under concurrent constructors (image.h) ----
  next,           \* the static std::atomic<int32_t> next of Avoid2K
  a2k_planes,     \* per thread: counter and offset of each plane of its Image3
  a2k_done,       \* per thread: the Image3 objects constructed so far
  a2k_seen        \* the counter values handed out, in order

pbVars  == <<size_, padded_size_, data_, pb_last, pb_writes>>
imgVars == <<images, unchecked, img_aborted>>
encVars == <<enc_pc, enc_in, enc_header, enc_target, enc_steps, enc_result>>
decVars == <<dec_pc, dec_in, header, alpha_bit_depth, temp, image_assigned,
             dec_result>>
tsVars  == <<ts_pc, ts_in, measured, ts_entry, ts_i, quant_dc, quant_ac,
             scale_good, scale_bad, found_candidate, dist_good, dist_bad,
             quant_dc_good, quant_ac_good, ts_encoded, ts_result>>
srVars  == <<sr_pc, sr_in, quant_field, best_quant_field, best_butteraugli,
             tile_distmap, distance, visited, fbq_i, outer_iter,
             butteraugli_iter, search_radius, quant_ceil, hq_quant_dc,
             num_stalling_iters, changed, qmax, sr_last, best_installed>>
rateVars == <<quantizer, tsVars, srVars>>
noiseVars == <<noise_pc, noise_in, noise_params, noise_bits, noise_read,
               noise_out>>
ytobVars == <<ytob_pc, ytob_in, ytob_dc, ytob_map, ytox_pc, ytox_dc, ytox_map>>
rowVars == <<row_pc, row_in, bytes_per_row>>
pureVars == <<fn_pc, fn_in, fn_out>>
avoidVars == <<next, a2k_planes, a2k_done, a2k_seen>>
auxVars == <<noiseVars, ytobVars, rowVars, pureVars, avoidVars>>

-----------------------------------------------------------------------------
(* Bounds of the model *)
MaxSize    == 9   \* largest size passed to PaddedBytes::resize
MaxByte    == 1    \* byte values are 0..MaxByte
MaxWrites  == 2    \* client writes into the buffer per behaviour
MaxDim     == 1    \* image dimensions are 0..MaxDim
MaxImage3  == 3    \* Image3 objects a thread constructs

Min(a, b) == IF a <= b THEN a ELSE b
Max(a, b) == IF a >= b THEN a ELSE b

-----------------------------------------------------------------------------
(*                      PaddedBytes  (padded_bytes.cc)                     *)

\* Mutant: no rounding up to whole 64-bit words.
PaddedSizeUnrounded(size) == size

\* PaddedBytes::PaddedSize: (size + 7) & ~7.  Sizes stay far below 2^64 - 7,
\* so the addition does not wrap.
PaddedSize(size) == ((size + 7) \div 8) * 8

PBNone == [op |-> "none", n |-> 0, old_size |-> 0, old_padded |-> 0,
           old_data |-> <<>>]

\* State of a default-constructed PaddedBytes.
PBInit ==
  /\ size_ = 0
  /\ padded_size_ = 0
  /\ data_ = <<>>
  /\ pb_last = PBNone
  /\ pb_writes = 0

\* Mutant: the reallocating path forgets the memset of the tail.
GrownDataNoMemset(old, old_size, new_padded_size) ==
  [i \in 1..new_padded_size |->
     IF i <= Len(old) THEN old[i] ELSE MaxByte]

\* The buffer built by the reallocating path of resize: memcpy of the first
\* size_ bytes of the old buffer, memset(0) of [size_, new_padded_size).
GrownData(old, old_size, new_padded_size) ==
  [i \in 1..new_padded_size |-> IF i <= old_size THEN old[i] ELSE 0]

\* PaddedBytes::resize(n)
PBResize(n) ==
  LET new_padded_size == PaddedSize(n) IN
  /\ pb_last' = [op |-> "resize", n |-> n, old_size |-> size_,
                 old_padded |-> padded_size_, old_data |-> data_]
  /\ IF new_padded_size <= padded_size_
       THEN \* "Shrinking, no copy needed."
            /\ size_' = n
            /\ UNCHANGED <<padded_size_, data_>>
       ELSE /\ data_' = GrownData(data_, size_, new_padded_size)
            /\ size_' = n
            /\ padded_size_' = new_padded_size
  /\ UNCHANGED pb_writes

\* A client stores one byte through data()[i], i < size().
PBWriteByte(i, v) ==
  /\ pb_writes < MaxWrites
  /\ i < size_
  /\ data_' = [data_ EXCEPT ![i + 1] = v]
  /\ pb_writes' = pb_writes + 1
  /\ pb_last' = PBNone
  /\ UNCHANGED <<size_, padded_size_>>

\* A client stores a whole 64-bit word at the 8-byte-aligned offset o < size().
PBWriteWord(o, v) ==
  /\ pb_writes < MaxWrites
  /\ o < size_
  /\ o % 8 = 0
  /\ o + 8 <= padded_size_     \* otherwise the store is outside the allocation
  /\ data_' = [i \in 1..Len(data_) |->
                 IF i > o /\ i <= o + 8 THEN v ELSE data_[i]]
  /\ pb_writes' = pb_writes + 1
  /\ pb_last' = PBNone
  /\ UNCHANGED <<size_, padded_size_>>

-----------------------------------------------------------------------------
(*                        Image / Image3  (image.h)                        *)

Dims   == 0..MaxDim
Planes == 0..2
Objs   == 1..2

\* Image(): empty plane.   Image(xsize, ysize): allocated plane.
EmptyPlane == [xsize_ |-> 0, ysize_ |-> 0]
Plane(x, y) == [xsize_ |-> x, ysize_ |-> y]

\* The planes handed to a three-plane constructor: of the size of the first
\* one, or differing from it in one dimension.
PlanesNear(x, y) ==
  {Plane(x, y), Plane((x + 1) % (MaxDim + 1), y), Plane(x, (y + 1) % (MaxDim + 1))}

\* SameSize(a, b)
SameSize(a, b) == a.xsize_ = b.xsize_ /\ a.ysize_ = b.ysize_

\* Mutant: ShrinkTo forgets the last plane.
ShrinkPlanesButLast(ps, x, y) ==
  [c \in Planes |-> IF c < 2 THEN Plane(x, y) ELSE ps[c]]

\* Image3::ShrinkTo: every plane is shrunk to (xsize, ysize).
ShrinkPlanes(ps, x, y) == [c \in Planes |-> Plane(x, y)]

ImgInit ==
  /\ images = [k \in Objs |-> [c \in Planes |-> EmptyPlane]]
  /\ unchecked = [k \in Objs |-> FALSE]
  /\ img_aborted = FALSE

\* Image3(xsize, ysize)
Image3Sized(k, x, y) ==
  /\ ~img_aborted
  /\ images' = [images EXCEPT ![k] = [c \in Planes |-> Plane(x, y)]]
  /\ unchecked' = [unchecked EXCEPT ![k] = FALSE]
  /\ UNCHANGED img_aborted

\* Image3(PlaneT&&, PlaneT&&, PlaneT&&) and Image3(std::array&), which
\* delegates to it: PIK_CHECK(SameSize) aborts on planes of different sizes.
Image3FromPlanes(k, p0, p1, p2) ==
  /\ ~img_aborted
  /\ IF SameSize(p0, p1) /\ SameSize(p0, p2)
       THEN /\ images' = [images EXCEPT ![k] = [c \in Planes |->
                            IF c = 0 THEN p0 ELSE IF c = 1 THEN p1 ELSE p2]]
            /\ unchecked' = [unchecked EXCEPT ![k] = FALSE]
            /\ UNCHANGED img_aborted
       ELSE /\ img_aborted' = TRUE
            /\ UNCHANGED <<images, unchecked>>

\* Image3(Image3&&) and operator=(Image3&&): each plane is move-assigned,
\* which copies xsize_/ysize_ and leaves the source's sizes as they were.
Image3Move(k, j) ==
  /\ ~img_aborted
  /\ k # j
  /\ images' = [images EXCEPT ![k] = images[j]]
  /\ unchecked' = [unchecked EXCEPT ![k] = unchecked[j]]
  /\ UNCHANGED img_aborted

\* Image3::Swap
Image3Swap(k, j) ==
  /\ ~img_aborted
  /\ k # j
  /\ images' = [images EXCEPT ![k] = images[j], ![j] = images[k]]
  /\ unchecked' = [unchecked EXCEPT ![k] = unchecked[j], ![j] = unchecked[k]]
  /\ UNCHANGED img_aborted

\* Image3::ShrinkTo -> Image::ShrinkTo on every plane.  PIK_ASSERT is compiled
\* in only in checking builds: a violated assertion either aborts or is not
\* evaluated at all.
Image3ShrinkTo(k, x, y) ==
  /\ ~img_aborted
  /\ \/ /\ images' = [images EXCEPT ![k] = ShrinkPlanes(images[k], x, y)]
        /\ UNCHANGED img_aborted
     \/ /\ \E c \in Planes : x > images[k][c].xsize_ \/ y > images[k][c].ysize_
        /\ img_aborted' = TRUE
        /\ UNCHANGED images
  /\ UNCHANGED unchecked

\* A single-plane producer overwrites *MutablePlane(idx) with an image of its
\* own size.  Producers fill one Image3 at a time: no other object is waiting
\* for its CheckSizesSame.
Image3ReplacePlane(k, idx, x, y) ==
  /\ ~img_aborted
  /\ \A j \in Objs \ {k} : ~unchecked[j]
  /\ images' = [images EXCEPT ![k][idx] = Plane(x, y)]
  /\ unchecked' = [unchecked EXCEPT ![k] = TRUE]
  /\ UNCHANGED img_aborted

\* Image3::CheckSizesSame: PIK_CHECK(SameSize(Plane(0), Plane(c))), c = 1, 2.
Image3CheckSizesSame(k) ==
  /\ ~img_aborted
  /\ unchecked[k]
  /\ IF \A c \in 1..2 : SameSize(images[k][0], images[k][c])
       THEN /\ unchecked' = [unchecked EXCEPT ![k] = FALSE]
            /\ UNCHANGED img_aborted
       ELSE /\ img_aborted' = TRUE
            /\ UNCHANGED unchecked
  /\ UNCHANGED images

-----------------------------------------------------------------------------
(*                     PikToPixels  (pik.cc, decoder)                      *)

kMaxWidth       == 33554431     \* (1 << 25) - 1
kNumQuantTables == 2            \* quant_template is one of {Default, HQ}

\* Header::bitstream tags; "Other" stands for every unassigned tag value.
Bitstreams == {"Default", "Brunsli", "Other"}

\* Header dimensions tried: empty, smallest, largest legal, first illegal.
HeaderDims == {0, 1, kMaxWidth, kMaxWidth + 1}

\* DecompressParams::max_num_pixels values tried.
MaxNumPixelsChoices == {1, kMaxWidth + 1}

HeaderNone == [bitstream |-> "Default", xsize |-> 0, ysize |-> 0,
               quant_template |-> 0, alpha |-> FALSE]

TempNone == [color_set |-> FALSE, alpha_bit_depth_ |-> 0]

\* The calls: which PikToPixels overload (MetaImage<T>* or Image3<T>*), the
\* pixel type, the parameters, the header stored in the bytes, and the
\* answers of the decoders that are outside pik.cc.
DecInputs ==
  [ overload : {"meta", "image3"},
    T : {"B", "U", "F"},
    empty : BOOLEAN,                    \* compressed.size() == 0
    load : {"ok", "null", "truncated"}, \* LoadHeader
    bitstream : Bitstreams,
    xsize : HeaderDims,
    ysize : HeaderDims,
    quant_template : 0..kNumQuantTables,
    alpha : BOOLEAN,                    \* header.flags & Header::kAlpha
    max_num_pixels : MaxNumPixelsChoices,
    alpha_depth : {-1, 0, 8, 16},       \* PikToAlpha: -1 = failure
    payload : {"ok", "bad", "trailing"} \* DecodeFromBitstream / bytes left over
  ]

\* The inputs explored: one external failure at a time, so that the header
\* checks are reached with every header.
DecCalls ==
  { c \in DecInputs :
      /\ (c.empty \/ c.load # "ok") =>
            /\ c.bitstream = "Default" /\ c.xsize = 1 /\ c.ysize = 1
            /\ c.quant_template = 0 /\ ~c.alpha
            /\ c.max_num_pixels = 1 /\ c.alpha_depth = 0 /\ c.payload = "ok"
      /\ c.empty => c.load = "ok"
      /\ ~c.alpha => c.alpha_depth = 0
      /\ c.alpha => c.alpha_depth # 0 }

DecInit ==
  /\ dec_pc = "entry"
  /\ dec_in \in DecCalls
  /\ header = HeaderNone
  /\ alpha_bit_depth = 0
  /\ temp = TempNone
  /\ image_assigned = FALSE
  /\ dec_result = "none"

DecIdle ==
  /\ dec_pc = "idle"
  /\ dec_in = [overload |-> "meta", T |-> "B", empty |-> TRUE, load |-> "ok",
               bitstream |-> "Default", xsize |-> 1, ysize |-> 1,
               quant_template |-> 0, alpha |-> FALSE, max_num_pixels |-> 1,
               alpha_depth |-> 0, payload |-> "ok"]
  /\ header = HeaderNone
  /\ alpha_bit_depth = 0
  /\ temp = TempNone
  /\ image_assigned = FALSE
  /\ dec_result = "none"

\* return PIK_FAILURE(msg) / return false from PikToPixelsT(MetaImage<T>*)
DecFail(msg) ==
  /\ dec_result' = msg
  /\ dec_pc' = "inner_done"

\* num_pixels > params.max_num_pixels with num_pixels the 64-bit product
\* xsize * ysize, which cannot wrap for 32-bit factors: for xsize > 0 it is
\* ysize > floor(max_num_pixels / xsize).
NumPixelsExceeds(xsize, ysize, max_num_pixels) ==
  xsize > 0 /\ ysize > max_num_pixels \div xsize

\* Mutant: an 8-bit alpha channel is not seen.
HasAlphaOnly16(t) == t.alpha_bit_depth_ > 8

\* MetaImage::HasAlpha
HasAlpha(t) == t.alpha_bit_depth_ > 0

\* Lines 1045-1058: empty input, LoadHeader.
DecLoadHeader ==
  /\ dec_pc = "entry"
  /\ IF dec_in.empty
       THEN DecFail("Empty input.") /\ UNCHANGED header
       ELSE IF dec_in.load = "null"
       THEN DecFail("LoadHeader failed") /\ UNCHANGED header
       ELSE IF dec_in.load = "truncated"
       THEN DecFail("Truncated header.") /\ UNCHANGED header
       ELSE /\ header' = [bitstream |-> dec_in.bitstream,
                          xsize |-> dec_in.xsize, ysize |-> dec_in.ysize,
                          quant_template |-> dec_in.quant_template,
                          alpha |-> dec_in.alpha]
            /\ dec_pc' = "dispatch"
            /\ UNCHANGED dec_result
  /\ UNCHANGED <<dec_in, alpha_bit_depth, temp, image_assigned>>

\* Lines 1060-1069: the Brunsli path and the unknown-tag test.
\* BrunsliToPixels fails for Image3U / Image3F and on bytes that do not decode.
DecDispatch ==
  /\ dec_pc = "dispatch"
  /\ IF header.bitstream = "Brunsli"
       THEN IF dec_in.T # "B"
              THEN DecFail("Brunsli not supported") /\ UNCHANGED temp
            ELSE IF dec_in.payload = "bad"
              THEN DecFail("Brunsli v2 decoding error") /\ UNCHANGED temp
            ELSE /\ temp' = [temp EXCEPT !.color_set = TRUE]
                 /\ dec_result' = "ok"
                 /\ dec_pc' = "inner_done"
     ELSE IF header.bitstream # "Default"
       THEN DecFail("Unsupported bitstream") /\ UNCHANGED temp
     ELSE /\ dec_pc' = "validate"
          /\ UNCHANGED <<dec_result, temp>>
  /\ UNCHANGED <<dec_in, header, alpha_bit_depth, image_assigned>>

\* Lines 1071-1085: the checks of the default bitstream's header.
DecValidate ==
  /\ dec_pc = "validate"
  /\ IF header.xsize = 0 \/ header.ysize = 0
       THEN DecFail("Empty image.")
     ELSE IF header.xsize > kMaxWidth
       THEN DecFail("Image too wide.")
     ELSE IF NumPixelsExceeds(header.xsize, header.ysize,
                              dec_in.max_num_pixels)
       THEN DecFail("Image too big.")
     ELSE IF header.quant_template >= kNumQuantTables
       THEN DecFail("Invalid quant table.")
     ELSE /\ dec_pc' = "alpha"
          /\ UNCHANGED dec_result
  /\ UNCHANGED <<dec_in, header, alpha_bit_depth, temp, image_assigned>>

\* Lines 1087-1097: PikToAlpha when the header carries the alpha flag.
DecAlpha ==
  /\ dec_pc = "alpha"
  /\ IF header.alpha
       THEN IF dec_in.alpha_depth < 0
              THEN DecFail("PikToAlpha failed") /\ UNCHANGED alpha_bit_depth
              ELSE /\ alpha_bit_depth' = dec_in.alpha_depth
                   /\ dec_pc' = "bitstream"
                   /\ UNCHANGED dec_result
       ELSE /\ dec_pc' = "bitstream"
            /\ UNCHANGED <<dec_result, alpha_bit_depth>>
  /\ UNCHANGED <<dec_in, header, temp, image_assigned>>

\* Lines 1099-1116: DecodeFromBitstream.
DecBitstream ==
  /\ dec_pc = "bitstream"
  /\ IF dec_in.payload = "bad"
       THEN DecFail("Pik decoding failed.")
       ELSE dec_pc' = "output" /\ UNCHANGED dec_result
  /\ UNCHANGED <<dec_in, header, alpha_bit_depth, temp, image_assigned>>

\* Lines 1117-1146: reconstruction, SetColor, SetAlpha, size check.
DecOutput ==
  /\ dec_pc = "output"
  /\ temp' = [color_set |-> TRUE,
              alpha_bit_depth_ |-> IF alpha_bit_depth > 0
                                     THEN alpha_bit_depth
                                     ELSE temp.alpha_bit_depth_]
  /\ dec_result' = IF dec_in.payload = "trailing"
                     THEN "Pik compressed data size mismatch."
                     ELSE "ok"
  /\ dec_pc' = "inner_done"
  /\ UNCHANGED <<dec_in, header, alpha_bit_depth, image_assigned>>

\* Lines 1149-1190: the overloads.  The MetaImage overloads return the inner
\* result; the Image3 overloads (lines 1164-1177) decode into a temporary
\* MetaImage, refuse an alpha channel and move the colour planes out.
DecReturn ==
  /\ dec_pc = "inner_done"
  /\ dec_pc' = "done"
  /\ IF dec_in.overload = "meta"
       THEN UNCHANGED <<dec_result, image_assigned>>
     ELSE IF dec_result # "ok"
       THEN UNCHANGED <<dec_result, image_assigned>>
     ELSE IF HasAlpha(temp)
       THEN /\ dec_result' = "Unable to output alpha channel"
            /\ UNCHANGED image_assigned
     ELSE /\ image_assigned' = TRUE
          /\ UNCHANGED dec_result
  /\ UNCHANGED <<dec_in, header, alpha_bit_depth, temp>>

-----------------------------------------------------------------------------
(*                 PixelsToPik / OpsinToPik  (pik.cc, encoder)             *)

\* Sizes of the byte strings the encoder stores, in bytes.
MaxCompressedHeaderSize == 3   \* MaxCompressedHeaderSize()
MaxPayload == 2                \* largest EncodeToBitstream / AlphaToPik output

\* butteraugli_distance values tried, in tenths: negative, 1.0, 1.5, 3.0.
DistChoices == {-10, 10, 15, 30}
kNoiseModelingRampUpDistanceMin == 14    \* 1.4, in tenths

Overrides == {"Default", "On", "Off"}

EncInputs ==
  [ entry : {"PixelsToPik", "OpsinToPik"},
    T : {"B", "F"},                  \* pixel type of the PixelsToPik overload
    xsize : Dims, ysize : Dims,
    has_alpha : BOOLEAN,             \* the image is a MetaImage with alpha
    use_brunsli_v2 : BOOLEAN,
    butteraugli_distance : DistChoices,
    below_hq : BOOLEAN,              \* butteraugli_distance < kMaxButteraugliForHQ
    denoise : Overrides,
    apply_noise : Overrides,
    fast_mode : BOOLEAN,
    target_size : {0, 1},
    target_bitrate : {0, 8},         \* bits per pixel
    target_size_search_fast_mode : BOOLEAN,
    uniform_quant : {0, 1},
    header_size : {0, 1, MaxCompressedHeaderSize},  \* StoreHeader; 0 = nullptr
    alpha_size : 0..1,               \* AlphaToPik output; 0 = failure
    payload_size : {1, MaxPayload},  \* EncodeToBitstream output
    brunsli_ok : BOOLEAN ]

\* The inputs explored.  Answers of steps a call cannot reach are fixed.
EncCalls ==
  { c \in EncInputs :
      /\ c.entry = "OpsinToPik" =>
            /\ c.T = "F" /\ ~c.use_brunsli_v2 /\ c.header_size = 1
            /\ c.alpha_size = 1 /\ c.denoise = "Default"
      /\ ~c.use_brunsli_v2 => c.brunsli_ok
      /\ c.use_brunsli_v2 => c.header_size = 1
      /\ ~c.has_alpha => c.alpha_size = 1
      /\ (c.xsize = 0 \/ c.ysize = 0) =>
            /\ c.header_size = 1 /\ c.alpha_size = 1 /\ c.payload_size = 1
            /\ c.brunsli_ok
      /\ (c.entry = "PixelsToPik" /\ ~c.use_brunsli_v2) => c.T = "B"
      /\ (c.butteraugli_distance = 30) = ~c.below_hq }

EncHeaderNone == [xsize |-> 0, ysize |-> 0, alpha |-> FALSE, denoise |-> FALSE,
                  gaborish |-> FALSE, hq |-> FALSE]

EncInit ==
  /\ enc_pc = "entry"
  /\ enc_in \in EncCalls
  /\ enc_header = EncHeaderNone
  /\ enc_target = 0
  /\ enc_steps = <<>>
  /\ enc_result = "none"

EncIdle ==
  /\ enc_pc = "idle"
  /\ enc_in = [entry |-> "PixelsToPik", T |-> "B", xsize |-> 0, ysize |-> 0,
               has_alpha |-> FALSE, use_brunsli_v2 |-> FALSE,
               butteraugli_distance |-> 10, below_hq |-> TRUE,
               denoise |-> "Default", apply_noise |-> "Default",
               fast_mode |-> FALSE, target_size |-> 0, target_bitrate |-> 0,
               target_size_search_fast_mode |-> FALSE, uniform_quant |-> 0,
               header_size |-> 1, alpha_size |-> 1, payload_size |-> 1,
               brunsli_ok |-> TRUE]
  /\ enc_header = EncHeaderNone
  /\ enc_target = 0
  /\ enc_steps = <<>>
  /\ enc_result = "none"

\* TargetSize(params, img): target_size if set, else
\* 0.5 + target_bitrate * xsize * ysize / 8 truncated, else 0.
TargetSize(target_size, target_bitrate, xsize, ysize) ==
  IF target_size > 0 THEN target_size
  ELSE IF target_bitrate > 0
    THEN (4 + target_bitrate * xsize * ysize) \div 8
  ELSE 0

\* return PIK_FAILURE(msg) / return false
EncFail(msg) ==
  /\ enc_result' = msg
  /\ enc_pc' = "done"

\* The bytes a step appends through compressed->resize and data().
EncResizeTo(n) == PBResize(n)

\* Mutant: the header buffer is allocated before the image is looked at.
EmptyImageNever(xsize, ysize) == FALSE

\* image.xsize() == 0 || image.ysize() == 0
EmptyImage(xsize, ysize) == xsize = 0 \/ ysize = 0

\* PixelsToPikT lines 822-827: empty image, Brunsli dispatch.
\* PixelsToBrunsli fails for float images; for byte images it runs guetzli
\* and JpegToPikLossless, which resizes the output and stores a header.
EncPixelsEntry ==
  /\ enc_pc = "entry"
  /\ enc_in.entry = "PixelsToPik"
  /\ IF EmptyImage(enc_in.xsize, enc_in.ysize)
       THEN EncFail("Empty image") /\ UNCHANGED <<pbVars, enc_steps>>
     ELSE IF enc_in.use_brunsli_v2
       THEN IF enc_in.T = "F"
              THEN /\ EncFail("Brunsli not supported for Image3F")
                   /\ UNCHANGED <<pbVars, enc_steps>>
            ELSE IF ~enc_in.brunsli_ok
              THEN /\ EncFail("Guetzli processing failed.")
                   /\ UNCHANGED <<pbVars, enc_steps>>
            ELSE /\ EncResizeTo(MaxCompressedHeaderSize + MaxPayload)
                 /\ enc_steps' = Append(enc_steps, "JpegToPikLossless")
                 /\ enc_result' = "ok"
                 /\ enc_pc' = "done"
     ELSE /\ enc_pc' = "header"
          /\ enc_steps' = Append(enc_steps, "OpsinDynamicsImage")
          /\ UNCHANGED <<pbVars, enc_result>>
  /\ UNCHANGED <<enc_in, enc_header, enc_target>>

\* PixelsToPikT lines 830-864: build the header, resize to the largest header,
\* StoreHeader, resize to the bytes used.
EncStoreHeader ==
  /\ enc_pc = "header"
  /\ enc_header' = [xsize |-> enc_in.xsize, ysize |-> enc_in.ysize,
                    alpha |-> enc_in.has_alpha,
                    denoise |-> (enc_in.denoise = "On"),
                    gaborish |-> ~enc_in.below_hq,
                    hq |-> enc_in.below_hq]
  /\ IF enc_in.header_size = 0
       THEN /\ EncResizeTo(MaxCompressedHeaderSize)
            /\ EncFail("StoreHeader failed")
       ELSE \* resize(Max); StoreHeader writes; resize(header_size): no copy
            /\ size_' = enc_in.header_size
            /\ padded_size_' = Max(padded_size_,
                                   PaddedSize(MaxCompressedHeaderSize))
            /\ data_' = [i \in 1..(padded_size_') |->
                           IF i <= enc_in.header_size THEN MaxByte
                           ELSE IF i <= size_ THEN data_[i] ELSE 0]
            /\ pb_last' = [op |-> "resize", n |-> enc_in.header_size,
                           old_size |-> MaxCompressedHeaderSize,
                           old_padded |-> padded_size_',
                           old_data |-> data_']
            /\ UNCHANGED pb_writes
            /\ enc_pc' = "alpha"
            /\ UNCHANGED enc_result
  /\ enc_steps' = Append(enc_steps, "StoreHeader")
  /\ UNCHANGED <<enc_in, enc_target>>

\* PixelsToPikT lines 866-889: AlphaToPik, the target size left for the
\* colour planes, the call of OpsinToPik.
EncAlpha ==
  /\ enc_pc = "alpha"
  /\ IF enc_header.alpha /\ enc_in.alpha_size = 0
       THEN /\ EncFail("AlphaToPik failed")
            /\ UNCHANGED <<pbVars, enc_target>>
            /\ enc_steps' = Append(enc_steps, "AlphaToPik")
       ELSE LET used == IF enc_header.alpha
                          THEN size_ + enc_in.alpha_size ELSE size_
                target_size == TargetSize(enc_in.target_size,
                                          enc_in.target_bitrate,
                                          enc_in.xsize, enc_in.ysize)
                opsin_target_size == IF used < target_size
                                       THEN target_size - used ELSE 1
            IN /\ IF enc_header.alpha
                    THEN /\ EncResizeTo(used)
                         /\ enc_steps' = Append(enc_steps, "AlphaToPik")
                    ELSE UNCHANGED <<pbVars, enc_steps>>
               /\ enc_target' =
                    IF enc_in.target_size > 0 \/ enc_in.target_bitrate > 0
                      THEN opsin_target_size ELSE enc_in.target_size
               /\ enc_pc' = "opsin_entry"
               /\ UNCHANGED enc_result
  /\ UNCHANGED <<enc_in, enc_header>>

\* A direct call of OpsinToPik: the caller supplies header and parameters.
EncOpsinCall ==
  /\ enc_pc = "entry"
  /\ enc_in.entry = "OpsinToPik"
  /\ enc_header' = [xsize |-> enc_in.xsize, ysize |-> enc_in.ysize,
                    alpha |-> enc_in.has_alpha, denoise |-> FALSE,
                    gaborish |-> ~enc_in.below_hq, hq |-> enc_in.below_hq]
  /\ enc_target' = enc_in.target_size
  /\ enc_pc' = "opsin_entry"
  /\ UNCHANGED <<pbVars, enc_in, enc_steps, enc_result>>

\* OpsinToPik lines 916-924: empty image, AlignImage, CenterOpsinValues.
EncOpsinEntry ==
  /\ enc_pc = "opsin_entry"
  /\ IF EmptyImage(enc_in.xsize, enc_in.ysize)
       THEN EncFail("Empty image") /\ UNCHANGED enc_steps
       ELSE /\ enc_steps' = enc_steps \o <<"AlignImage", "CenterOpsinValues">>
            /\ enc_pc' = "noise"
            /\ UNCHANGED enc_result
  /\ UNCHANGED <<pbVars, enc_in, enc_header, enc_target>>

\* enable_noise of lines 939-943.
EnableNoise(c) ==
  IF c.apply_noise # "Default" THEN c.apply_noise = "On"
  ELSE c.butteraugli_distance > kNoiseModelingRampUpDistanceMin

\* Mutant: the Gaborish filter runs before the noise estimator.
GaborishNoiseCalls(c, hdr) ==
  (IF hdr.gaborish THEN <<"GaborishInverse">> ELSE <<>>)
    \o (IF EnableNoise(c) THEN <<"GetNoiseParameter">> ELSE <<>>)

\* OpsinToPik lines 943-959: GetNoiseParameter if enabled, then
\* GaborishInverse if the header asks for it.
NoiseGaborishCalls(c, hdr) ==
  (IF EnableNoise(c) THEN <<"GetNoiseParameter">> ELSE <<>>)
    \o (IF hdr.gaborish THEN <<"GaborishInverse">> ELSE <<>>)

\* OpsinToPik lines 925-959.
EncNoiseGaborish ==
  /\ enc_pc = "noise"
  /\ enc_steps' = enc_steps \o NoiseGaborishCalls(enc_in, enc_header)
  /\ enc_pc' = "ctan"
  /\ UNCHANGED <<pbVars, enc_in, enc_header, enc_target, enc_result>>

\* OpsinToPik lines 960-969: the ctan search, the Quantizer.
EncCtan ==
  /\ enc_pc = "ctan"
  /\ enc_steps' = enc_steps
        \o (IF ~enc_in.fast_mode /\ (enc_in.butteraugli_distance >= 0
                                      \/ enc_in.target_bitrate > 0
                                      \/ enc_target > 0)
              THEN <<"FindBestYToBCorrelation", "FindBestYToXCorrelation">>
              ELSE <<>>)
        \o <<"SetQuant(1.0)">>
  /\ enc_pc' = "quant"
  /\ UNCHANGED <<pbVars, enc_in, enc_header, enc_target, enc_result>>

\* Mutant: uniform_quant is tested first.
QuantBranchUniformFirst(c, target) ==
  IF c.uniform_quant > 0 THEN <<"SetQuant(uniform_quant)">>
  ELSE IF c.fast_mode THEN <<"AdaptiveQuantizationMap", "SetQuantField">>
  ELSE IF target > 0 \/ c.target_bitrate > 0
    THEN IF c.target_size_search_fast_mode
           THEN <<"FindBestQuantization", "ScaleToTargetSize">>
           ELSE <<"CompressToTargetSize">>
  ELSE IF c.butteraugli_distance < 0 THEN <<"return false">>
  ELSE IF c.butteraugli_distance <= kNoiseModelingRampUpDistanceMin
    THEN <<"FindBestQuantizationHQ">>
  ELSE <<"FindBestQuantization">>

\* OpsinToPik lines 970-1011: which quantization routine runs.
QuantBranch(c, target) ==
  IF c.fast_mode THEN <<"AdaptiveQuantizationMap", "SetQuantField">>
  ELSE IF target > 0 \/ c.target_bitrate > 0
    THEN IF c.target_size_search_fast_mode
           THEN <<"FindBestQuantization", "ScaleToTargetSize">>
           ELSE <<"CompressToTargetSize">>
  ELSE IF c.uniform_quant > 0 THEN <<"SetQuant(uniform_quant)">>
  ELSE IF c.butteraugli_distance < 0 THEN <<"return false">>
  ELSE IF c.butteraugli_distance <= kNoiseModelingRampUpDistanceMin
    THEN <<"FindBestQuantizationHQ">>
  ELSE <<"FindBestQuantization">>

EncQuant ==
  /\ enc_pc = "quant"
  /\ LET calls == QuantBranch(enc_in, enc_target) IN
       IF calls = <<"return false">>
         THEN EncFail("false") /\ UNCHANGED enc_steps
         ELSE /\ enc_steps' = enc_steps \o calls
              /\ enc_pc' = "encode"
              /\ UNCHANGED enc_result
  /\ UNCHANGED <<pbVars, enc_in, enc_header, enc_target>>

\* OpsinToPik lines 1018-1021: compressed->resize(old size + n) and the
\* memcpy of the n encoded bytes behind the old contents.
AppendBytes(n) ==
  LET old_size == size_
      new_size == size_ + n
      grown == IF PaddedSize(new_size) <= padded_size_ THEN data_
               ELSE GrownData(data_, size_, PaddedSize(new_size))
  IN /\ size_' = new_size
     /\ padded_size_' = Max(padded_size_, PaddedSize(new_size))
     /\ data_' = [i \in 1..Len(grown) |->
                    IF i > old_size /\ i <= new_size THEN MaxByte
                    ELSE grown[i]]
     /\ pb_last' = PBNone
     /\ UNCHANGED pb_writes

\* OpsinToPik lines 1012-1022: ComputeCoefficients, EncodeToBitstream, the
\* bytes appended to the output.
EncEncode ==
  /\ enc_pc = "encode"
  /\ enc_steps' = enc_steps \o <<"ComputeCoefficients", "EncodeToBitstream">>
  /\ AppendBytes(enc_in.payload_size)
  /\ enc_result' = "ok"
  /\ enc_pc' = "done"
  /\ UNCHANGED <<enc_in, enc_header, enc_target>>

-----------------------------------------------------------------------------
(*      Quantizer (quantizer.h; the class is not among the sources)        *)

Blocks == 1..2          \* the image is two 8x8 blocks wide and one block high

kLevelOne == 16         \* the quantizer level that stands for the value 1.0

\* The field levels and DC levels a finished FindBestQuantization may leave in
\* the quantizer.
FieldChoices == { <<16, 16>>, <<8, 31>> }
DcChoices == {15, 16}

\* What SetQuantField(dc, field) stores: a DC level and one AC level per
\* block, whole numbers.  The arguments are given in 1/unit of a level and
\* are rounded down.  SetQuantField returns whether the stored state changed.
QuantState(dc, field, unit) ==
  [dc |-> dc \div unit, ac |-> [b \in Blocks |-> field[b] \div unit]]

\* Quantizer::SetQuant(1.0f), the state OpsinToPik starts the search from.
QuantUniform == [dc |-> kLevelOne, ac |-> [b \in Blocks |-> kLevelOne]]

\* The quantizer of a component that is not running.
QuantIdle == quantizer = QuantUniform

-----------------------------------------------------------------------------
(*   Target-size search: ScaleToTargetSize, CompressToTargetSize (pik.cc)  *)

MaxTarget == 2         \* target_size is 1..MaxTarget bytes
MaxTiles == 2          \* tiles of the image FindBestYToBCorrelation sees

kScaleOne == 67108864   \* scale 1.0; scales are multiples of 2^-26
kDistOne == 1000000     \* distance 1.0; distances are multiples of 10^-6
kIntervalLenThresh == kDistOne \div 20       \* 0.05f

TsCalls ==
  [ mode : {"ScaleToTargetSize", "CompressToTargetSize"},
    target_size : 1..MaxTarget ]

\* OpsinToPik at line 980, right after quantizer.SetQuant(1.0f).
TsInit ==
  /\ ts_pc = "entry"
  /\ ts_in \in TsCalls
  /\ quantizer = QuantUniform
  /\ measured = {}
  /\ ts_entry = QuantUniform
  /\ ts_i = 0
  /\ quant_dc = 0 /\ quant_ac = <<>>
  /\ scale_good = kScaleOne /\ scale_bad = kScaleOne
  /\ found_candidate = FALSE
  /\ dist_good = -kDistOne /\ dist_bad = -kDistOne
  /\ quant_dc_good = kLevelOne /\ quant_ac_good = <<>>
  /\ ts_encoded = 0
  /\ ts_result = "none"

TsIdle ==
  /\ ts_pc = "idle"
  /\ ts_in = [mode |-> "ScaleToTargetSize", target_size |-> 1]
  /\ measured = {}
  /\ ts_entry = QuantUniform
  /\ ts_i = 0
  /\ quant_dc = 0 /\ quant_ac = <<>>
  /\ scale_good = kScaleOne /\ scale_bad = kScaleOne
  /\ found_candidate = FALSE
  /\ dist_good = -kDistOne /\ dist_bad = -kDistOne
  /\ quant_dc_good = kLevelOne /\ quant_ac_good = <<>>
  /\ ts_encoded = 0
  /\ ts_result = "none"

\* Sizes EncodeToBitstream(ComputeCoefficients(..., quantizer)) can have: the
\* encoder is deterministic, so a quantizer state measured before gives the
\* same size again; a new state either just fits or just misses the target.
EncodedSizes(q) ==
  IF \E m \in measured : m.q = q
    THEN { m.size : m \in { n \in measured : n.q = q } }
    ELSE { ts_in.target_size, ts_in.target_size + 1 }

\* The quantizer states FindBestQuantization can commit (line 330).  The DC
\* level depends on the target distance through 0.938 / min(d, d^0.745) and
\* the field on the comparator; the model lets both be any of the choices.
FindBestQuantizationResults ==
  { [dc |-> d, ac |-> f] : d \in DcChoices, f \in FieldChoices }

\* Mutant: the DC quant is scaled like the field.
ScaleDCLikeField(scale) == scale

\* ScaleQuantizationMap line 617: scale_dc = 0.8 * scale + 0.2.
ScaleDC(scale) == (8 * scale + 2 * kScaleOne) \div 10

\* ScaleQuantizationMap lines 618-619: the state SetQuantField is given.
ScaleQuantizationMap(scale) ==
  QuantState(ScaleDC(scale) * quant_dc,
             [b \in Blocks |-> scale * quant_ac[b]], kScaleOne)

\* OpsinToPik lines 983-984 (FindBestQuantization at 1.0) and
\* ScaleToTargetSize lines 636-642.
ScaleEntry ==
  /\ ts_pc = "entry"
  /\ ts_in.mode = "ScaleToTargetSize"
  /\ \E q \in FindBestQuantizationResults :
       /\ quantizer' = q
       /\ ts_entry' = q
       /\ quant_dc' = q.dc
       /\ quant_ac' = q.ac
  /\ scale_bad' = kScaleOne
  /\ scale_good' = kScaleOne
  /\ found_candidate' = FALSE
  /\ ts_i' = 0
  /\ ts_pc' = "halve"
  /\ UNCHANGED <<pbVars, ts_in, measured, dist_good, dist_bad, quant_dc_good,
                 quant_ac_good, ts_encoded, ts_result>>

\* One iteration of the loop of lines 643-656, and the tests of lines
\* 657-664 once the loop is left.
ScaleHalve ==
  /\ ts_pc = "halve"
  /\ LET q == ScaleQuantizationMap(scale_good) IN
     \E sz \in EncodedSizes(q) :
       /\ quantizer' = q
       /\ measured' = measured \cup {[q |-> q, size |-> sz]}
       /\ IF sz <= ts_in.target_size
            THEN /\ found_candidate' = TRUE
                 /\ ts_i' = 0
                 /\ UNCHANGED <<scale_good, scale_bad>>
                 /\ ts_pc' = IF scale_good = kScaleOne THEN "encode"
                             ELSE "bisect"
            ELSE /\ scale_bad' = scale_good
                 /\ scale_good' = scale_good \div 2
                 /\ ts_i' = ts_i + 1
                 /\ ts_pc' = IF ts_i + 1 < 10 THEN "halve" ELSE "encode"
                 /\ UNCHANGED found_candidate
  /\ UNCHANGED <<pbVars, ts_in, ts_entry, quant_dc, quant_ac, dist_good,
                 dist_bad, quant_dc_good, quant_ac_good, ts_encoded, ts_result>>

\* One iteration of the bisection of lines 665-680.
ScaleBisect ==
  /\ ts_pc = "bisect"
  /\ LET scale == (scale_bad + scale_good) \div 2
         q == ScaleQuantizationMap(scale)
     IN IF q = quantizer
          THEN \* SetQuantField reports no change: break
               /\ ts_pc' = "commit"
               /\ UNCHANGED <<quantizer, measured, scale_good, scale_bad, ts_i>>
          ELSE \E sz \in EncodedSizes(q) :
                 /\ quantizer' = q
                 /\ measured' = measured \cup {[q |-> q, size |-> sz]}
                 /\ IF sz <= ts_in.target_size
                      THEN scale_good' = scale /\ UNCHANGED scale_bad
                      ELSE scale_bad' = scale /\ UNCHANGED scale_good
                 /\ ts_i' = ts_i + 1
                 /\ ts_pc' = IF ts_i + 1 < 16 THEN "bisect" ELSE "commit"
  /\ UNCHANGED <<pbVars, ts_in, ts_entry, quant_dc, quant_ac, found_candidate,
                 dist_good, dist_bad, quant_dc_good, quant_ac_good, ts_encoded,
                 ts_result>>

\* Mutant: the scale that failed last is installed.
CommitScaleBad == scale_bad

\* The scale of line 681.
CommitScale == scale_good

\* ScaleToTargetSize line 681.
ScaleCommit ==
  /\ ts_pc = "commit"
  /\ quantizer' = ScaleQuantizationMap(CommitScale)
  /\ ts_pc' = "encode"
  /\ UNCHANGED <<pbVars, ts_in, measured, ts_entry, ts_i, quant_dc, quant_ac,
                 scale_good, scale_bad, found_candidate, dist_good, dist_bad,
                 quant_dc_good, quant_ac_good, ts_encoded, ts_result>>

\* Mutant: the downward search is left below 0.1 only.
DistTooSmallLate(dist) == 10 * dist < kDistOne

\* CompressToTargetSize line 708: dist < 0.3.
DistTooSmall(dist) == 10 * dist < 3 * kDistOne

\* CompressToTargetSize lines 700-716: the next trial distance, 0 for break.
CtsDist ==
  IF dist_good >= 0 /\ dist_bad >= 0
    THEN IF dist_good - dist_bad < kIntervalLenThresh THEN 0
         ELSE (dist_good + dist_bad) \div 2
  ELSE IF dist_good >= 0
    THEN IF DistTooSmall((dist_good * 4) \div 5) THEN 0
         ELSE (dist_good * 4) \div 5
  ELSE IF dist_bad >= 0
    THEN IF (dist_bad * 5) \div 4 > 32 * kDistOne THEN 0
         ELSE (dist_bad * 5) \div 4
  ELSE kDistOne

\* One iteration of the loop of lines 699-730.
CtsTrial ==
  /\ ts_pc \in {"entry", "trial"}
  /\ ts_in.mode = "CompressToTargetSize"
  /\ LET dist == CtsDist IN
     IF dist = 0
       THEN /\ ts_pc' = "cts_commit"
            /\ UNCHANGED <<quantizer, measured, ts_i, dist_good, dist_bad,
                           quant_dc_good, quant_ac_good>>
       ELSE \E q \in FindBestQuantizationResults :
            \E sz \in EncodedSizes(q) :
              /\ quantizer' = q
              /\ measured' = measured \cup {[q |-> q, size |-> sz]}
              /\ IF sz <= ts_in.target_size
                   THEN /\ dist_good' = dist
                        /\ quant_dc_good' = q.dc
                        /\ quant_ac_good' = q.ac
                        /\ UNCHANGED dist_bad
                   ELSE /\ dist_bad' = dist
                        /\ UNCHANGED <<dist_good, quant_dc_good, quant_ac_good>>
              /\ ts_i' = ts_i + 1
              /\ ts_pc' = "trial"
  /\ UNCHANGED <<pbVars, ts_in, ts_entry, quant_dc, quant_ac, scale_good,
                 scale_bad, found_candidate, ts_encoded, ts_result>>

\* CompressToTargetSize line 731.  When no trial fit, quant_ac_good is still
\* the default-constructed (empty) ImageF: SetQuantField reads rows the image
\* does not have.  The read faults, or the field levels come out as whatever
\* was read, or they are left as the last trial set them.
CtsCommit ==
  /\ ts_pc = "cts_commit"
  /\ IF quant_ac_good = <<>>
       THEN \/ ts_pc' = "crashed" /\ UNCHANGED quantizer
            \/ \E g \in FieldChoices \cup {quantizer.ac} :
                 /\ quantizer' = [dc |-> quant_dc_good, ac |-> g]
                 /\ ts_pc' = "encode"
       ELSE /\ quantizer' = [dc |-> quant_dc_good, ac |-> quant_ac_good]
            /\ ts_pc' = "encode"
  /\ UNCHANGED <<pbVars, ts_in, measured, ts_entry, ts_i, quant_dc, quant_ac,
                 scale_good, scale_bad, found_candidate, dist_good, dist_bad,
                 quant_dc_good, quant_ac_good, ts_encoded, ts_result>>

\* OpsinToPik lines 1012-1022 after a target-size search: the coefficients
\* are computed and encoded with the quantizer as the search left it, the
\* bytes are appended and the call returns true.
TsEncode ==
  /\ ts_pc = "encode"
  /\ \E sz \in EncodedSizes(quantizer) :
       /\ ts_encoded' = sz
       /\ measured' = measured \cup {[q |-> quantizer, size |-> sz]}
       /\ AppendBytes(sz)
  /\ ts_result' = "ok"
  /\ ts_pc' = "done"
  /\ UNCHANGED <<quantizer, ts_in, ts_entry, ts_i, quant_dc, quant_ac,
                 scale_good, scale_bad, found_candidate, dist_good, dist_bad,
                 quant_dc_good, quant_ac_good>>

-----------------------------------------------------------------------------
(*   Quantization search: FindBestQuantization, FindBestQuantizationHQ     *)
(*                                                                         *)
(* Numbers.  FindBestQuantization multiplies, divides and raises to        *)
(* powers; its distances and quant values are held as base-2 logarithms    *)
(* in thousandths (1.0 is 0, 2.0 is 1000), so a product is a sum and       *)
(* pow(x, p) is x * p.  A distance of exactly 0 has no logarithm and is    *)
(* not among the comparator's answers there.  FindBestQuantizationHQ adds  *)
(* and takes reciprocals; its distances and quant values are held in       *)
(* hundredths (1.0 is 100).  The distance map is constant on each 8x8      *)
(* block, so it is held as one value per block.                            *)

kLogGrain == 100        \* thousandths of a binary logarithm per level

\* The comparator's distance maps, one value per block.
FbqDistMaps == { <<-1000, -1000>>, <<30, 30>>, <<-1000, 1000>>,
                 <<11000, 11000>> }
HqDistMaps == { <<200, 0>>, <<150, 150>>, <<80, 80>> }

\* AdaptiveQuantizationMap(opsin_orig.plane(1), 8), one value per block.
FbqAqMaps == { <<0, 0>> }
HqAqMaps == { <<100, 100>>, <<100, 200>>, <<600, 600>> }

SrCalls ==
  [ fn : {"FindBestQuantization"},
    butteraugli_target : {0, 20},
    max_iters : {0, 2, 8},            \* cparams.max_butteraugli_iters
    slow : {FALSE},
    aq : FbqAqMaps,
    holds_field : BOOLEAN ]           \* the quantizer already holds the
                                      \* initial field (a repeated call)
  \cup
  [ fn : {"FindBestQuantizationHQ"},
    butteraugli_target : {100},
    max_iters : {1, 5, 8},              \* max_butteraugli_iters(_really_slow_mode)
    slow : BOOLEAN,                   \* cparams.really_slow_mode
    aq : HqAqMaps,
    holds_field : {FALSE} ]

\* butteraugli::ButteraugliScoreFromDiffmap: the largest value of the map.
ButteraugliScoreFromDiffmap(distmap) ==
  CHOOSE v \in {distmap[b] : b \in Blocks} :
     \A b \in Blocks : distmap[b] <= v

\* TileDistMap(distmap, 8, margin): the maximum over the tile widened by
\* margin pixels, which for 0 < margin <= 8 reaches into the adjacent tiles.
TileDistMap(distmap, margin) ==
  [b \in Blocks |->
     IF margin = 0 THEN distmap[b]
     ELSE ButteraugliScoreFromDiffmap(
            [c \in Blocks |-> IF c \in {b - 1, b, b + 1} THEN distmap[c]
                              ELSE distmap[b]])]

\* ImageMinMax's max.
ImageMax(field) ==
  CHOOSE v \in {field[b] : b \in Blocks} : \A b \in Blocks : field[b] <= v

\* Mutant: every compared field is recorded as the best one.
IsBestAlways(d, best) == TRUE

\* Mutant: only a strictly smaller distance is recorded.
IsBestStrict(d, best) == d < best

\* The test of lines 263 and 386: comparator.distance() <= best_butteraugli.
IsBest(d, best) == d <= best

\* FindBestQuantization lines 219-222: kInitialQuantDC =
\* 0.938 / min(target, target^0.745), as a logarithm.
kInitialQuantDC(target) == -92 - Min(target, (745 * target) \div 1000)

\* Lines 223-226: quant_field = (1.176 / target) * AdaptiveQuantizationMap.
FbqInitialField(c) == [b \in Blocks |-> 234 - c.butteraugli_target + c.aq[b]]

\* Lines 343-345: quant_field = (slow ? 1.2 : 1.5) * AdaptiveQuantizationMap.
HqInitialField(c) ==
  [b \in Blocks |-> IF c.slow THEN (6 * c.aq[b]) \div 5 ELSE (3 * c.aq[b]) \div 2]

\* The state SetQuantField(dc, field) stores, for either search.
SrQuantState(dc, field) ==
  IF sr_in.fn = "FindBestQuantization"
    THEN QuantState(dc, field, kLogGrain)
    ELSE QuantState(kLevelOne * dc, [b \in Blocks |-> kLevelOne * field[b]], 100)

\* No iteration of FindBestQuantization has run.
NoIteration == [i |-> -1]

SrInit ==
  /\ sr_pc = "loop"
  /\ sr_in \in SrCalls
  /\ quant_field = IF sr_in.fn = "FindBestQuantization"
                     THEN FbqInitialField(sr_in) ELSE HqInitialField(sr_in)
  /\ best_quant_field = quant_field
  /\ best_butteraugli = IF sr_in.fn = "FindBestQuantization" THEN 9966
                        ELSE 100000                      \* 1000.0f
  /\ tile_distmap = <<>>
  /\ distance = 0                                        \* distance_(0.0)
  /\ quantizer = IF sr_in.holds_field
                   THEN SrQuantState(kInitialQuantDC(sr_in.butteraugli_target),
                                     quant_field)
                 ELSE IF sr_in.fn = "FindBestQuantization"
                   THEN QuantState(0, [b \in Blocks |-> 0], kLogGrain)
                 ELSE QuantUniform
  /\ visited = {}
  /\ fbq_i = 0
  /\ outer_iter = 0 /\ butteraugli_iter = 0 /\ search_radius = 0
  /\ quant_ceil = 500
  /\ hq_quant_dc = IF sr_in.slow THEN 120 ELSE 160
  /\ num_stalling_iters = 0
  /\ changed = FALSE
  /\ qmax = 0
  /\ sr_last = NoIteration
  /\ best_installed = <<>>

SrIdle ==
  /\ sr_pc = "idle"
  /\ sr_in = [fn |-> "FindBestQuantization", butteraugli_target |-> 0,
              max_iters |-> 0, slow |-> FALSE, aq |-> <<0, 0>>,
              holds_field |-> FALSE]
  /\ quant_field = <<>> /\ best_quant_field = <<>>
  /\ best_butteraugli = 0
  /\ tile_distmap = <<>>
  /\ distance = 0
  /\ visited = {}
  /\ fbq_i = 0
  /\ outer_iter = 0 /\ butteraugli_iter = 0 /\ search_radius = 0
  /\ quant_ceil = 500
  /\ hq_quant_dc = 160
  /\ num_stalling_iters = 0
  /\ changed = FALSE
  /\ qmax = 0
  /\ sr_last = NoIteration
  /\ best_installed = <<>>

\* kMargins[i] of line 268: 100 entries, the first seven given.
kMargins(i) == IF i < 7 THEN <<0, 0, 1, 2, 1, 0, 0>>[i + 1] ELSE 0

\* What a read past the end of kPow can return.
kPowOutOfBounds == {0, 743}

\* kPow[i] of lines 293-302, in thousandths: the array has seven entries, a
\* read at index 7 or more returns whatever follows it in memory.
kPow(i) == IF i < 7 THEN {<<999, 1003, 743, 852, 0, 0, 0>>[i + 1]}
           ELSE kPowOutOfBounds

\* Mutant: the branch for cur_pow == 0 leaves the field alone.
UpdateSkipAll(field, dist, target) == field

\* Lines 305-314, the branch taken when cur_pow == 0.
UpdateSkipPow(field, dist, target) ==
  [b \in Blocks |->
     LET diff == dist[b] - target
     IN IF diff >= 0 THEN field[b] + diff ELSE field[b]]

\* Lines 316-327, the branch taken otherwise.
UpdateWithPow(field, dist, target, cur_pow) ==
  [b \in Blocks |->
     LET diff == dist[b] - target
     IN IF diff < 0 THEN field[b] + ((diff * cur_pow) \div 1000)
        ELSE field[b] + diff]

\* One iteration of the loop of FindBestQuantization, lines 231-329.  When
\* the update step runs before any comparison of this call, tile_distmap is
\* still the empty image: the reads of its rows fault or return anything.
FbqIter ==
  /\ sr_pc = "loop"
  /\ sr_in.fn = "FindBestQuantization"
  /\ fbq_i < sr_in.max_iters
  /\ LET target == sr_in.butteraugli_target
         new == SrQuantState(kInitialQuantDC(target), quant_field)
         compared == new # quantizer
     IN
     /\ quantizer' = new
     /\ \E distmap \in (IF compared THEN FbqDistMaps ELSE {<<>>}) :
        LET d == IF compared THEN ButteraugliScoreFromDiffmap(distmap)
                 ELSE distance
            tiles == IF compared THEN TileDistMap(distmap, kMargins(fbq_i))
                     ELSE tile_distmap
        IN
        /\ distance' = d
        /\ tile_distmap' = tiles
        /\ visited' = IF compared THEN visited \cup {d} ELSE visited
        /\ IF compared /\ IsBest(d, best_butteraugli)
             THEN /\ best_quant_field' = quant_field
                  /\ best_butteraugli' = Max(d, target)
                  /\ best_installed' = new
             ELSE UNCHANGED <<best_quant_field, best_butteraugli,
                              best_installed>>
        /\ \E cur_pow \in kPow(fbq_i) :
           \E read \in (IF tiles = <<>> THEN FbqDistMaps \cup {<<>>}
                        ELSE {tiles}) :
             /\ sr_last' = [i |-> fbq_i, compared |-> compared, d |-> d,
                             quant_field |-> quant_field,
                             best_quant_field |-> best_quant_field,
                             best_butteraugli |-> best_butteraugli,
                             margin |-> kMargins(fbq_i),
                             pow_in_array |-> fbq_i < 7,
                             cur_pow |-> cur_pow,
                             assigned |-> tiles # <<>>,
                             read |-> read]
             /\ IF read = <<>>
               THEN sr_pc' = "crashed" /\ UNCHANGED <<quant_field, fbq_i>>
               ELSE /\ quant_field' =
                         IF cur_pow = 0
                           THEN UpdateSkipPow(quant_field, read, target)
                           ELSE UpdateWithPow(quant_field, read, target, cur_pow)
                    /\ fbq_i' = fbq_i + 1
                    /\ UNCHANGED sr_pc
  /\ UNCHANGED <<sr_in, outer_iter, butteraugli_iter, search_radius,
                 quant_ceil, hq_quant_dc, num_stalling_iters, changed, qmax>>

\* FindBestQuantization line 330, after the loop.
FbqCommit ==
  /\ UNCHANGED <<sr_last, best_installed>>
  /\ sr_pc = "loop"
  /\ sr_in.fn = "FindBestQuantization"
  /\ fbq_i >= sr_in.max_iters
  /\ quantizer' = SrQuantState(kInitialQuantDC(sr_in.butteraugli_target),
                               best_quant_field)
  /\ sr_pc' = "done"
  /\ UNCHANGED <<sr_in, quant_field, best_quant_field, best_butteraugli,
                 tile_distmap, distance, visited, fbq_i, outer_iter,
                 butteraugli_iter, search_radius, quant_ceil, hq_quant_dc,
                 num_stalling_iters, changed, qmax>>

kMaxOuterIters == 2

\* DistToPeakMap(field, peak_min, local_radius, 0.0): a block is a peak when
\* its value exceeds peak_min; every block within local_radius of a peak
\* gets its distance to the nearest one, the others -1.
DistToPeakMap(field, peak_min, local_radius) ==
  [b \in Blocks |->
     LET near == { Max(b - p, p - b) :
                     p \in { c \in Blocks : /\ field[c] > peak_min
                                            /\ Max(b - c, c - b) <= local_radius } }
     IN IF near = {} THEN -1
        ELSE CHOOSE v \in near : \A w \in near : v <= w]

\* Mutant: the step is not clamped at quant_max.
AdjustQuantValUnclamped(q, d, speed, dist, quant_max) ==
  IF 1000 * q >= 999 * quant_max THEN [ret |-> FALSE, q |-> q]
  ELSE LET num == 10000 * (d + 1) - ((speed * dist * q) \div 100)
       IN IF num <= 0 THEN [ret |-> TRUE, q |-> 100000]
          ELSE [ret |-> TRUE, q |-> (10000 * q * (d + 1)) \div num]

\* AdjustQuantVal(&q, d, factor, quant_max) with factor = speed * dist,
\* speed in hundredths: the return value and the new q.
\*   1/q - factor/(d+1)  =  (10^4 (d+1) - speed*dist*q / 100) / (10^2 q (d+1))
AdjustQuantVal(q, d, speed, dist, quant_max) ==
  IF 1000 * q >= 999 * quant_max THEN [ret |-> FALSE, q |-> q]
  ELSE LET num == 10000 * (d + 1) - ((speed * dist * q) \div 100)
       IN IF num * quant_max <= 10000 * q * (d + 1)
            THEN [ret |-> TRUE, q |-> quant_max]
            ELSE [ret |-> TRUE, q |-> (10000 * q * (d + 1)) \div num]

\* (slow ? kAdjSpeed[outer_iter] : 0.2f), in hundredths.
AdjSpeed == IF sr_in.slow THEN <<10, 4>>[outer_iter + 1] ELSE 20

\* Lines 426-442 for one radius: every block the peak map marks is adjusted.
AdjustPass(field, radius) ==
  LET peaks == DistToPeakMap(tile_distmap, sr_in.butteraugli_target, radius)
      adj == [b \in Blocks |->
                IF peaks[b] >= 0
                  THEN AdjustQuantVal(field[b], peaks[b], AdjSpeed,
                                      tile_distmap[b], quant_ceil)
                  ELSE [ret |-> FALSE, q |-> field[b]]]
  IN [changed |-> \E b \in Blocks : adj[b].ret,
      field |-> [b \in Blocks |-> adj[b].q]]

\* The loop of line 425: radius = 0 .. search_radius while nothing changed.
RECURSIVE AdjustRadii(_, _)
AdjustRadii(field, radius) ==
  IF radius > search_radius THEN [changed |-> FALSE, field |-> field]
  ELSE LET pass == AdjustPass(field, radius)
       IN IF pass.changed THEN pass ELSE AdjustRadii(pass.field, radius + 1)

\* FindBestQuantizationHQ lines 369-423: SetQuantField and, when it reports
\* a change, the comparison and the bookkeeping that follows it.
HqSet ==
  /\ UNCHANGED sr_last
  /\ sr_pc = "loop"
  /\ sr_in.fn = "FindBestQuantizationHQ"
  /\ LET target == sr_in.butteraugli_target
         new == SrQuantState(hq_quant_dc, quant_field)
     IN
     /\ qmax' = ImageMax(quant_field)
     /\ quantizer' = new
     /\ changed' = FALSE
     /\ IF new # quantizer
          THEN \E distmap \in HqDistMaps :
               LET d == ButteraugliScoreFromDiffmap(distmap) IN
               /\ distance' = d
               /\ visited' = visited \cup {d}
               /\ butteraugli_iter' = butteraugli_iter + 1
               /\ IF IsBest(d, best_butteraugli)
                    THEN /\ best_quant_field' = quant_field
                         /\ best_butteraugli' = Max(d, target)
                         /\ best_installed' = new
                         /\ num_stalling_iters' = 0
                    ELSE /\ UNCHANGED <<best_quant_field, best_butteraugli,
                                        best_installed>>
                         /\ num_stalling_iters' =
                              IF outer_iter = 0 THEN num_stalling_iters + 1
                              ELSE num_stalling_iters
               /\ tile_distmap' = TileDistMap(distmap, 0)
               /\ sr_pc' = IF butteraugli_iter + 1 >= sr_in.max_iters
                             THEN "commit" ELSE "while"
          ELSE /\ sr_pc' = "while"
               /\ UNCHANGED <<distance, visited, butteraugli_iter,
                              best_quant_field, best_butteraugli,
                              best_installed, num_stalling_iters,
                              tile_distmap>>
  /\ UNCHANGED <<sr_in, quant_field, fbq_i, outer_iter, search_radius,
                 quant_ceil, hq_quant_dc>>

\* Mutant: the radius is raised whatever it is.
CanRaiseRadiusUncapped ==
  \/ 100 * qmax < 99 * quant_ceil
  \/ quant_ceil >= 300 + 100 * search_radius

\* The test of lines 446-448.
CanRaiseRadius ==
  /\ search_radius < 4
  /\ \/ 100 * qmax < 99 * quant_ceil
     \/ quant_ceil >= 300 + 100 * search_radius

\* One pass through the body of the while loop of lines 424-463.
HqWhile ==
  /\ UNCHANGED <<sr_last, best_installed>>
  /\ sr_pc = "while"
  /\ ~changed /\ distance > sr_in.butteraugli_target
  /\ LET adj == AdjustRadii(quant_field, 0) IN
     /\ quant_field' = adj.field
     /\ IF ~adj.changed \/ num_stalling_iters >= (IF sr_in.slow THEN 3 ELSE 1)
          THEN IF CanRaiseRadius
                 THEN /\ search_radius' = search_radius + 1
                      /\ changed' = adj.changed
                      /\ UNCHANGED <<hq_quant_dc, quant_ceil, sr_pc>>
               ELSE IF 10 * hq_quant_dc < 4 * quant_ceil - 800
                 THEN /\ hq_quant_dc' = hq_quant_dc + 20
                      /\ changed' = TRUE
                      /\ UNCHANGED <<search_radius, quant_ceil, sr_pc>>
               ELSE IF quant_ceil < 800
                 THEN /\ quant_ceil' = quant_ceil + 50
                      /\ changed' = adj.changed
                      /\ UNCHANGED <<search_radius, hq_quant_dc, sr_pc>>
               ELSE /\ sr_pc' = "outer"
                    /\ changed' = adj.changed
                    /\ UNCHANGED <<search_radius, hq_quant_dc, quant_ceil>>
          ELSE /\ changed' = adj.changed
               /\ UNCHANGED <<search_radius, hq_quant_dc, quant_ceil, sr_pc>>
  /\ UNCHANGED <<quantizer, sr_in, best_quant_field, best_butteraugli,
                 tile_distmap, distance, visited, fbq_i, outer_iter,
                 butteraugli_iter, num_stalling_iters, qmax>>

\* Mutant: the search always ends with the first outer round.
LastOuterRoundAlways == TRUE

\* Line 465: !slow || ++outer_iter == kMaxOuterIters.
LastOuterRound == ~sr_in.slow \/ outer_iter + 1 = kMaxOuterIters

\* Lines 464-473, reached when the while loop ends or is left by break.
HqOuter ==
  /\ UNCHANGED <<sr_last, best_installed>>
  /\ \/ sr_pc = "outer"
     \/ sr_pc = "while" /\ ~(~changed /\ distance > sr_in.butteraugli_target)
  /\ IF ~changed
       THEN IF LastOuterRound
              THEN /\ sr_pc' = "commit"
                   /\ outer_iter' = IF sr_in.slow THEN outer_iter + 1
                                    ELSE outer_iter
                   /\ UNCHANGED <<quant_field, num_stalling_iters>>
              ELSE /\ outer_iter' = outer_iter + 1
                   /\ quant_field' = [b \in Blocks |-> (3 * quant_field[b]) \div 4]
                   /\ num_stalling_iters' = 0
                   /\ sr_pc' = "loop"
       ELSE /\ sr_pc' = "loop"
            /\ UNCHANGED <<quant_field, outer_iter, num_stalling_iters>>
  /\ UNCHANGED <<quantizer, sr_in, best_quant_field, best_butteraugli,
                 tile_distmap, distance, visited, fbq_i, butteraugli_iter,
                 search_radius, quant_ceil, hq_quant_dc, changed, qmax>>

\* FindBestQuantizationHQ line 475.
HqCommit ==
  /\ UNCHANGED <<sr_last, best_installed>>
  /\ sr_pc = "commit"
  /\ quantizer' = SrQuantState(hq_quant_dc, best_quant_field)
  /\ sr_pc' = "done"
  /\ UNCHANGED <<sr_in, quant_field, best_quant_field, best_butteraugli,
                 tile_distmap, distance, visited, fbq_i, outer_iter,
                 butteraugli_iter, search_radius, quant_ceil, hq_quant_dc,
                 num_stalling_iters, changed, qmax>>

-----------------------------------------------------------------------------
(*        Noise parameters: GetNoiseParameter, EncodeNoise, DecodeNoise    *)
(*                                                                         *)
(* alpha, gamma and beta are held in units of 10^-4, quality_coef in       *)
(* hundredths, the SAD threshold in thousandths.  The storage EncodeNoise fills is held as its sequence of   *)
(* bits, bit storage_ix of the code being element storage_ix + 1.          *)

kNoisePrecision == 1000

\* Values OptimizeNoiseParameters can return; all satisfy the PIK_ASSERT of
\* EncodeFloatParam, |val| * 1000 + 0.5 < 65536, and none lies half way
\* between two multiples of 1 / 1000, where the float product decides.
ParamChoices == {0, 4, 6, -6, -12346, 655354}

NoiseCalls ==
  [ sad_threshold : {0, 4, 148, 150, 152, 996},  \* GetSADThreshold(...)
    quality_coef : {25, 100},
    fit : [ {"alpha", "gamma", "beta"} -> ParamChoices ] ]

NoiseZero == [p \in {"alpha", "gamma", "beta"} |-> 0]

NoiseInit ==
  /\ noise_pc = "estimate"
  /\ noise_in \in NoiseCalls
  /\ noise_params = NoiseZero
  /\ noise_bits = <<>>
  /\ noise_read = 0
  /\ noise_out = NoiseZero

NoiseIdle ==
  /\ noise_pc = "idle"
  /\ noise_in = [sad_threshold |-> 0, quality_coef |-> 100, fit |-> NoiseZero]
  /\ noise_params = NoiseZero
  /\ noise_bits = <<>>
  /\ noise_read = 0
  /\ noise_out = NoiseZero

\* Mutant: only a large threshold switches the noise off.
SadThresholdTooLarge(sad_threshold) == sad_threshold > 150

\* GetNoiseParameter line 398: sad_threshold > 0.15f || sad_threshold <= 0.0f.
SadThresholdRejected(sad_threshold) == sad_threshold > 150 \/ sad_threshold <= 0

\* GetNoiseParameter, lines 382-411.
NoiseEstimate ==
  /\ noise_pc = "estimate"
  /\ noise_params' =
       IF SadThresholdRejected(noise_in.sad_threshold) THEN NoiseZero
       ELSE [p \in {"alpha", "gamma", "beta"} |->
               IF p = "gamma" THEN noise_in.fit[p]
               ELSE (noise_in.fit[p] * noise_in.quality_coef) \div 100]
  /\ noise_pc' = "encode"
  /\ UNCHANGED <<noise_in, noise_bits, noise_read, noise_out>>

RECURSIVE Pow2(_)
Pow2(n) == IF n = 0 THEN 1 ELSE 2 * Pow2(n - 1)

Abs(v) == IF v >= 0 THEN v ELSE -v

\* WriteBits(n_bits, bits, ...): the n_bits low bits, lowest first.
WriteBits(n_bits, bits) == [i \in 1..n_bits |-> (bits \div Pow2(i - 1)) % 2]

\* BitReader::ReadBits(n_bits) at bit position pos of storage.
RECURSIVE ReadBits(_, _, _)
ReadBits(storage, pos, n_bits) ==
  IF n_bits = 0 THEN 0
  ELSE storage[pos + 1] + 2 * ReadBits(storage, pos + 1, n_bits - 1)

\* EncodeFloatParam, lines 415-421: a sign bit, then
\* static_cast<int>(std::abs(val) * precision + 0.5f) in 16 bits.
EncodeFloatParam(val) ==
  WriteBits(1, IF val >= 0 THEN 1 ELSE 0)
    \o WriteBits(16, (Abs(val) * kNoisePrecision + 5000) \div 10000)

\* DecodeFloatParam, lines 423-427: sign * absval_quant / precision.
DecodeFloatParam(storage, pos) ==
  LET sign == 2 * ReadBits(storage, pos, 1) - 1
      absval_quant == ReadBits(storage, pos + 1, 16)
  IN (sign * absval_quant * 10000) \div kNoisePrecision

\* EncodeNoise, lines 429-450.
EncodeNoise(params) ==
  LET have_noise == params.alpha # 0 \/ params.gamma # 0 \/ params.beta # 0
      body == WriteBits(1, IF have_noise THEN 1 ELSE 0)
                \o (IF have_noise
                      THEN EncodeFloatParam(params.alpha)
                             \o EncodeFloatParam(params.gamma)
                             \o EncodeFloatParam(params.beta)
                      ELSE <<>>)
      jump_bits == ((Len(body) + 7) \div 8) * 8 - Len(body)
  IN body \o WriteBits(jump_bits, 0)

NoiseEncode ==
  /\ noise_pc = "encode"
  /\ noise_bits' = EncodeNoise(noise_params)
  /\ noise_pc' = "decode"
  /\ UNCHANGED <<noise_in, noise_params, noise_read, noise_out>>

\* Mutant: the fields are read in the order alpha, beta, gamma.
DecodeOrderByName == <<"alpha", "beta", "gamma">>

\* The order of the three DecodeFloatParam calls, lines 455-457.
DecodeOrder == <<"alpha", "gamma", "beta">>

\* DecodeNoise, lines 452-463, reading what EncodeNoise wrote.
NoiseDecode ==
  /\ noise_pc = "decode"
  /\ LET have_noise == ReadBits(noise_bits, 0, 1) = 1
         used == IF have_noise THEN 1 + 3 * 17 ELSE 1
     IN /\ noise_out' =
             IF have_noise
               THEN [p \in {"alpha", "gamma", "beta"} |->
                       LET k == CHOOSE j \in 1..3 : DecodeOrder[j] = p
                       IN DecodeFloatParam(noise_bits, 1 + 17 * (k - 1))]
               ELSE NoiseZero
        /\ noise_read' = ((used + 7) \div 8) * 8       \* JumpToByteBoundary
  /\ noise_pc' = "done"
  /\ UNCHANGED <<noise_in, noise_params, noise_bits>>

-----------------------------------------------------------------------------
(*        FindBestYToBCorrelation, FindBestYToXCorrelation (pik.cc)        *)
(*                                                                         *)
(* A tile is held as the coefficients the loops visit on it, in groups of  *)
(* n coefficients with the same scaled_y, scaled_b and scaled_x, all in    *)
(* tenths: y = row_y[x] * qm, b = kYToBScale * row_b[x] * qm,              *)
(* x = kYToXScale * row_x[x] * qm.  dc tells the coefficients whose index  *)
(* is 0 mod 64.                                                            *)

kZeroThresh == 896          \* kYToBScale * 0.7f = 89.6

kZeroThreshX == 1664        \* kYToXScale * 0.65f = 166.4

YtobRange == 0..255         \* for (int ytob = 0; ytob < 256; ++ytob)

\* The coefficient groups of a tile whose B is k * Y / 128 throughout.
Proportional(k, ys) == [i \in 1..Len(ys) |-> [y |-> ys[i].y, b |-> k * ys[i].y, n |-> ys[i].n]]

\* The 63 AC coefficients of a tile of one block.
YChoices ==
  { <<[y |-> 0, n |-> 63]>>,
    <<[y |-> 500, n |-> 63]>>,
    <<[y |-> -1000, n |-> 5], [y |-> 0, n |-> 58]>>,
    <<[y |-> 1000, n |-> 63]>>,
    <<[y |-> 500, n |-> 62], [y |-> -1000, n |-> 1]>> }

\* The AC coefficients with X = (kx - 128) * Y / 256 throughout.
WithX(kx, coeffs) ==
  [i \in 1..Len(coeffs) |->
     [y |-> coeffs[i].y, b |-> coeffs[i].b, x |-> (kx - 128) * coeffs[i].y,
      n |-> coeffs[i].n, dc |-> FALSE]]

\* The DC coefficient of the block.
DcCoefficient == [y |-> 1000, b |-> 3000, x |-> -5000, n |-> 1, dc |-> TRUE]

TileChoices ==
  { [k |-> k, coeffs |-> <<DcCoefficient>> \o WithX(kx, Proportional(k, ys))] :
      k \in {0, 3, 200}, kx \in {120, 128}, ys \in YChoices }

YtobInit ==
  /\ ytob_pc = "global"
  /\ ytob_in \in [1..MaxTiles -> TileChoices]
  /\ ytob_dc = 0
  /\ ytob_map = <<>>
  /\ ytox_pc = "global"
  /\ ytox_dc = 0
  /\ ytox_map = <<>>

YtobIdle ==
  /\ ytob_pc = "idle"
  /\ ytob_in = <<>>
  /\ ytob_dc = 0
  /\ ytob_map = <<>>
  /\ ytox_pc = "idle"
  /\ ytox_dc = 0
  /\ ytox_map = <<>>

\* Mutant: every coefficient is looked at.
SkipNothing(coeff) == FALSE

\* Lines 508, 531, 568 and 591: if (x % 64 == 0) continue.
SkipCoefficient(coeff) == coeff.dc

RECURSIVE CountZeros(_, _)
\* The inner loops, lines 507-516 and 530-539: the coefficients whose
\* residual |scaled_b - ytob * scaled_y| is below kZeroThresh.
CountZeros(coeffs, ytob) ==
  IF coeffs = <<>> THEN 0
  ELSE (IF /\ ~SkipCoefficient(Head(coeffs))
           /\ Abs(Head(coeffs).b - ytob * Head(coeffs).y) < kZeroThresh
          THEN Head(coeffs).n ELSE 0)
       + CountZeros(Tail(coeffs), ytob)

RECURSIVE CountZerosX(_, _)
\* The inner loops, lines 567-576 and 590-599: the coefficients whose
\* residual |scaled_x - (ytox - 128) * scaled_y| is below kZeroThresh.
CountZerosX(coeffs, ytox) ==
  IF coeffs = <<>> THEN 0
  ELSE (IF /\ ~SkipCoefficient(Head(coeffs))
           /\ Abs(Head(coeffs).x - (ytox - 128) * Head(coeffs).y) < kZeroThreshX
          THEN Head(coeffs).n ELSE 0)
       + CountZerosX(Tail(coeffs), ytox)

RECURSIVE Concat(_)
Concat(tiles) == IF tiles = <<>> THEN <<>> ELSE Head(tiles).coeffs \o Concat(Tail(tiles))

\* Mutant: the last index holding the maximum.
IndexOfLastMaximum(array) ==
  LET maxval == CHOOSE v \in {array[i] : i \in DOMAIN array} :
                  \A i \in DOMAIN array : array[i] <= v
  IN CHOOSE i \in DOMAIN array :
       array[i] = maxval /\ \A j \in DOMAIN array : j > i => array[j] # maxval

\* IndexOfMaximum, lines 478-490: the first index holding the maximum.
IndexOfMaximum(array) ==
  LET maxval == CHOOSE v \in {array[i] : i \in DOMAIN array} :
                  \A i \in DOMAIN array : array[i] <= v
  IN CHOOSE i \in DOMAIN array :
       array[i] = maxval /\ \A j \in DOMAIN array : j < i => array[j] # maxval

\* Lines 503-518: the factor of the whole image.
YtobGlobal ==
  /\ ytob_pc = "global"
  /\ LET all == Concat(ytob_in)
         num_zeros == [ytob \in YtobRange |-> CountZeros(all, ytob)]
     IN ytob_dc' = IndexOfMaximum(num_zeros)
  /\ ytob_pc' = "tiles"
  /\ UNCHANGED <<ytob_in, ytob_map, ytox_pc, ytox_dc, ytox_map>>

\* Lines 519-549, one tile: its best factor, or ytob_dc when the count of
\* zeros is not more than 10 above that of ytob_dc.
YtobTile ==
  /\ ytob_pc = "tiles"
  /\ LET tile == ytob_in[Len(ytob_map) + 1].coeffs
         num_zeros == [ytob \in YtobRange |-> CountZeros(tile, ytob)]
         best_ytob == IndexOfMaximum(num_zeros)
         stored == IF num_zeros[best_ytob] - num_zeros[ytob_dc] <= 10
                     THEN ytob_dc ELSE best_ytob
     IN ytob_map' = Append(ytob_map, stored)
  /\ ytob_pc' = IF Len(ytob_map) + 1 = Len(ytob_in) THEN "done" ELSE "tiles"
  /\ UNCHANGED <<ytob_in, ytob_dc, ytox_pc, ytox_dc, ytox_map>>

\* FindBestYToXCorrelation lines 563-578: the factor of the whole image.
\* OpsinToPik calls it when FindBestYToBCorrelation has returned (lines
\* 965-966).
YtoxGlobal ==
  /\ ytob_pc = "done"
  /\ ytox_pc = "global"
  /\ LET all == Concat(ytob_in)
         num_zeros == [ytox \in YtobRange |-> CountZerosX(all, ytox)]
     IN ytox_dc' = IndexOfMaximum(num_zeros)
  /\ ytox_pc' = "tiles"
  /\ UNCHANGED <<ytob_pc, ytob_in, ytob_dc, ytob_map, ytox_map>>

\* Lines 579-609, one tile: its best factor, or ytox_dc when the count of
\* zeros is the same as that of ytox_dc.
YtoxTile ==
  /\ ytox_pc = "tiles"
  /\ LET tile == ytob_in[Len(ytox_map) + 1].coeffs
         num_zeros == [ytox \in YtobRange |-> CountZerosX(tile, ytox)]
         best_ytox == IndexOfMaximum(num_zeros)
         stored == IF num_zeros[best_ytox] = num_zeros[ytox_dc]
                     THEN ytox_dc ELSE best_ytox
     IN ytox_map' = Append(ytox_map, stored)
  /\ ytox_pc' = IF Len(ytox_map) + 1 = Len(ytob_in) THEN "done" ELSE "tiles"
  /\ UNCHANGED <<ytob_pc, ytob_in, ytob_dc, ytob_map, ytox_dc>>

-----------------------------------------------------------------------------
(*                          BytesPerRow (image.h)                          *)
(*                                                                         *)
(* size_t is 64 bits wide.  A value v below 2^31 is held as v, a value     *)
(* within 2^31 of 2^64 as the negative number v - 2^64; the sum, the       *)
(* rounding to a multiple of a power of two and % 2048 of the code are     *)
(* then the integer sum, the rounding with \div and % 2048 of the held     *)
(* numbers, a sum that reaches 0 from below being one that wrapped.        *)

\* kMaxVectorSize=16..64 for SIMD (image.h:53); kImageAlign is
\* CacheAligned::kAlignment, 128 for Image (image.h:50), and the
\* static_assert of line 44 holds.
RowBuilds ==
  { b \in [ kMaxVectorSize : {16, 32, 64}, kImageAlign : {64, 128} ] :
      b.kImageAlign >= b.kMaxVectorSize }

ValidBytesChoices ==
  (0..40) \cup (1900..2050) \cup (3950..4100) \cup (-400..-1)

RowInit ==
  /\ row_pc = "call"
  /\ row_in \in [ build : RowBuilds, valid_bytes : ValidBytesChoices ]
  /\ bytes_per_row = 0

RowIdle ==
  /\ row_pc = "idle"
  /\ row_in = [ build |-> [kMaxVectorSize |-> 16, kImageAlign |-> 64],
                valid_bytes |-> 0 ]
  /\ bytes_per_row = 0

\* Mutant: the row size rounded up, whatever it is.
BytesPerRowRounded(kAlign, build, valid_bytes) ==
  LET row_size == valid_bytes + 2 * build.kMaxVectorSize
  IN ((row_size + kAlign - 1) \div kAlign) * kAlign

\* BytesPerRow<kAlign>, lines 57-77.
BytesPerRow(kAlign, build, valid_bytes) ==
  LET row_size == valid_bytes + 2 * build.kMaxVectorSize
      rounded == ((row_size + kAlign - 1) \div kAlign) * kAlign
  IN IF rounded % 2048 = 0 THEN rounded + build.kImageAlign ELSE rounded

\* Image::Image(xsize, ysize), line 110: BytesPerRow<kImageAlign>.
RowCompute ==
  /\ row_pc = "call"
  /\ bytes_per_row' = BytesPerRow(row_in.build.kImageAlign, row_in.build,
                                  row_in.valid_bytes)
  /\ row_pc' = "done"
  /\ UNCHANGED row_in

-----------------------------------------------------------------------------
(*          AdjustQuantVal and DistToPeakMap as functions (pik.cc)         *)

\* Calls of AdjustQuantVal(&q, d, factor, quant_max) with
\* factor = speed * dist: q, dist and quant_max in hundredths, speed in
\* hundredths, d a distance in blocks.
AdjustCalls ==
  [ fn : {"AdjustQuantVal"},
    q : {50, 100, 499, 500, 799, 800},
    d : {0, 1, 4},
    speed : {0, 4, 20},
    dist : {0, 80, 200, 1000},
    quant_max : {500, 800} ]

\* Calls of DistToPeakMap(field, peak_min, local_radius, peak_weight) on a
\* field of xsize x ysize pixels held row by row, pixel (x, y) being element
\* y * xsize + x + 1; peak_weight is in tenths (0, 0.5 and 1.0 are exact in a
\* float, and so is the threshold of line 128 on these values).
PeakCalls ==
  [ fn : {"DistToPeakMap"},
    xsize : {3}, ysize : {2},
    field : [1..6 -> {0, 2, 3}],
    peak_min : {1, 2},
    local_radius : {0, 1, 2},
    peak_weight : {0, 5, 10} ]

PureInit ==
  /\ fn_pc = "call"
  /\ fn_in \in AdjustCalls \cup PeakCalls
  /\ fn_out = <<>>

PureIdle ==
  /\ fn_pc = "idle"
  /\ fn_in = <<>>
  /\ fn_out = <<>>

\* A call of AdjustQuantVal, lines 145-153.
ApplyAdjustQuantVal ==
  /\ fn_pc = "call"
  /\ fn_in.fn = "AdjustQuantVal"
  /\ fn_out' = AdjustQuantVal(fn_in.q, fn_in.d, fn_in.speed, fn_in.dist,
                              fn_in.quant_max)
  /\ fn_pc' = "done"
  /\ UNCHANGED fn_in

\* DistToPeakMap lines 118-126: the window of (x0, y0), as the indices of its
\* pixels, and the largest of peak_min and the field values in it.
PeakWindow(c, x0, y0) ==
  LET x_min == Max(0, x0 - c.local_radius)
      y_min == Max(0, y0 - c.local_radius)
      x_max == Min(c.xsize, x0 + 1 + c.local_radius)
      y_max == Min(c.ysize, y0 + 1 + c.local_radius)
  IN { y * c.xsize + x + 1 : x \in x_min..(x_max - 1), y \in y_min..(y_max - 1) }

RECURSIVE LocalMax(_, _, _)
LocalMax(c, window, local_max) ==
  IF window = {} THEN local_max
  ELSE LET p == CHOOSE e \in window : TRUE
       IN LocalMax(c, window \ {p}, Max(local_max, c.field[p]))

\* Mutant: the threshold is peak_min whatever peak_weight is.
PeakThresholdMinOnly(c, local_max) == 10 * c.peak_min

\* Line 128: (1.0f - peak_weight) * peak_min + peak_weight * local_max, in
\* tenths.
PeakThreshold(c, local_max) ==
  (10 - c.peak_weight) * c.peak_min + c.peak_weight * local_max

\* The two outer loops of lines 116-141 from pixel k (in row order) on.
RECURSIVE PeakScan(_, _, _)
PeakScan(c, k, result) ==
  IF k = c.xsize * c.ysize THEN result
  ELSE LET x0 == k % c.xsize
           y0 == k \div c.xsize
           window == PeakWindow(c, x0, y0)
           local_max == LocalMax(c, window, c.peak_min)
           dist(p) == Max(Abs(((p - 1) \div c.xsize) - y0),
                          Abs(((p - 1) % c.xsize) - x0))
       IN IF 10 * c.field[k + 1] > PeakThreshold(c, local_max)
            THEN PeakScan(c, k + 1,
                   [p \in DOMAIN result |->
                      IF p \in window /\ (result[p] < 0 \/ result[p] > dist(p))
                        THEN dist(p) ELSE result[p]])
            ELSE PeakScan(c, k + 1, result)

\* DistToPeakMap, lines 113-143, with all four arguments.
DistToPeakMapWeighted(c) ==
  PeakScan(c, 0, [p \in 1..(c.xsize * c.ysize) |-> -1])

\* A call of DistToPeakMap.
ApplyDistToPeakMap ==
  /\ fn_pc = "call"
  /\ fn_in.fn = "DistToPeakMap"
  /\ fn_out' = DistToPeakMapWeighted(fn_in)
  /\ fn_pc' = "done"
  /\ UNCHANGED fn_in

-----------------------------------------------------------------------------
(*          Image::Avoid2K under concurrent constructors (image.h)         *)
(*                                                                         *)
(* Each thread constructs Image3(xsize, ysize) objects; each of the three  *)
(* planes is one call of Image::Image, which calls Avoid2K once.  The      *)
(* fetch_add is one atomic step; the threads' steps interleave freely.     *)
(* The size_t that Avoid2K returns from a negative int32 is 2^64 plus the  *)
(* number; it is held as the negative number.                              *)

Threads == 1..2

kGroups == 8

\* The values next can have when the threads start: no image constructed
\* yet, or 2^31 - 2 of them.
CounterStarts == {0, 2147483646}

AvoidInit ==
  /\ next \in CounterStarts
  /\ a2k_planes = [t \in Threads |-> <<>>]
  /\ a2k_done = [t \in Threads |-> 0]
  /\ a2k_seen = <<>>

AvoidIdle ==
  /\ next = 0
  /\ a2k_planes = <<>>
  /\ a2k_done = <<>>
  /\ a2k_seen = <<>>

\* next.fetch_add(1) on a std::atomic<int32_t>: the new value wraps.
FetchAdd(n) == IF n = 2147483647 THEN -2147483647 - 1 ELSE n + 1

\* The % of C++ on int32_t: the quotient is truncated towards zero.
Remainder(n, m) ==
  IF n >= 0 \/ n % m = 0 THEN n % m ELSE (n % m) - m

\* Avoid2K lines 229-234, for the counter value fetch_add returned.
Avoid2K(counter) == (2048 \div kGroups) * Remainder(counter, kGroups)

\* Image::Image lines 107-111 called by thread t for the next plane of the
\* Image3 it is constructing (Image3::Image3 lines 869-871).
ImageConstruct(t) ==
  /\ a2k_done[t] < MaxImage3
  /\ LET plane == [counter |-> next, offset |-> Avoid2K(next)]
         planes == IF Len(a2k_planes[t]) = 3 THEN <<plane>>
                   ELSE Append(a2k_planes[t], plane)
     IN /\ a2k_planes' = [a2k_planes EXCEPT ![t] = planes]
        /\ a2k_done' = [a2k_done EXCEPT ![t] =
                          IF Len(planes) = 3 THEN @ + 1 ELSE @]
  /\ a2k_seen' = Append(a2k_seen, next)
  /\ next' = FetchAdd(next)

\* The components below the search, not running.
AuxIdle == NoiseIdle /\ YtobIdle /\ RowIdle /\ PureIdle /\ AvoidIdle

-----------------------------------------------------------------------------
(*                     Properties of PaddedBytes                           *)

\* C8: a resize(n) with n greater than the current size keeps bytes
\* [0, old size) unchanged and leaves every byte of [old size, PaddedSize(n))
\* equal to zero.
C8_GrowthZeroesTail ==
  (pb_last.op = "resize" /\ pb_last.n > pb_last.old_size) =>
     /\ \A i \in 1..pb_last.old_size : data_[i] = pb_last.old_data[i]
     /\ \A i \in (pb_last.old_size + 1)..(((pb_last.n + 7) \div 8) * 8) :
           data_[i] = 0

-----------------------------------------------------------------------------
(*                       Properties of Image3                              *)

PlanesSameSize(k) == \A c \in 1..2 : SameSize(images[k][0], images[k][c])

\* C10 (as claimed): in every reachable state the three planes of an Image3
\* share xsize and ysize.
C10_PlanesAlwaysSameSize == \A k \in Objs : PlanesSameSize(k)

\* C10 (amended): the three planes share xsize and ysize in every state in
\* which no plane replacement through MutablePlane is waiting for its
\* CheckSizesSame.
C10_PlanesSameSizeWhenChecked ==
  \A k \in Objs : ~unchecked[k] => PlanesSameSize(k)

\* C10 witness: one Image3 of full size with equal planes next to one whose
\* plane was replaced and not yet checked.
C10_Witness ==
  \E k, j \in Objs :
     /\ ~unchecked[k]
     /\ images[k][0] = Plane(MaxDim, MaxDim)
     /\ PlanesSameSize(k)
     /\ unchecked[j]
     /\ ~PlanesSameSize(j)

-----------------------------------------------------------------------------
(*                      Properties of PikToPixels                          *)

\* The header of a default-bitstream (non-Brunsli) stream is invalid.
InvalidHeader ==
  \/ header.xsize = 0 \/ header.ysize = 0
  \/ header.xsize > kMaxWidth \/ header.ysize > kMaxWidth
  \/ NumPixelsExceeds(header.xsize, header.ysize, dec_in.max_num_pixels)
  \/ header.bitstream \notin {"Default", "Brunsli"}
  \/ header.quant_template >= kNumQuantTables

\* C6: PikToPixels returns failure for every loaded non-Brunsli header that
\* has a zero dimension, a dimension above (1<<25)-1, more pixels than
\* max_num_pixels, an unknown bitstream tag or an unknown quant_template.
C6_InvalidHeaderFails ==
  (/\ dec_pc = "done"
   /\ ~dec_in.empty /\ dec_in.load = "ok"
   /\ header.bitstream # "Brunsli"
   /\ InvalidHeader) => dec_result # "ok"

\* Every decoding step of the call succeeded and no byte was left over.
DecodeSucceeded ==
  /\ temp.color_set
  /\ header.bitstream = "Brunsli" \/ dec_in.payload = "ok"

\* C7: the Image3 overloads fail whenever an alpha channel was decoded
\* (alpha bit depth > 0) and then leave the caller's image unassigned; when
\* the stream decodes without alpha they succeed and assign the colour planes.
C7_Image3RefusesAlpha ==
  (dec_pc = "done" /\ dec_in.overload = "image3") =>
     /\ alpha_bit_depth > 0 => (dec_result # "ok" /\ ~image_assigned)
     /\ dec_result # "ok" => ~image_assigned
     /\ (DecodeSucceeded /\ alpha_bit_depth = 0) =>
           (dec_result = "ok" /\ image_assigned)

\* C7 witness: a stream with an 8-bit alpha channel decoded completely and
\* the Image3 overload refused it.
C7_Witness ==
  /\ dec_pc = "done"
  /\ dec_in.overload = "image3"
  /\ alpha_bit_depth = 8
  /\ DecodeSucceeded
  /\ dec_result = "Unable to output alpha channel"
  /\ ~image_assigned

-----------------------------------------------------------------------------
(*                Properties of PixelsToPik / OpsinToPik                   *)

\* C5: PixelsToPik and OpsinToPik return failure for every image with
\* xsize = 0 or ysize = 0, whatever the other parameters are, and the output
\* buffer is neither resized nor written before that.
C5_EmptyImageFails ==
  (enc_pc # "idle" /\ (enc_in.xsize = 0 \/ enc_in.ysize = 0)) =>
     /\ size_ = 0 /\ padded_size_ = 0 /\ data_ = <<>> /\ pb_last = PBNone
     /\ enc_steps = <<>>
     /\ enc_result \in {"none", "Empty image"}
     /\ enc_pc = "done" => enc_result = "Empty image"

\* C5 witness: both entry points have refused an empty image, one of them
\* with use_brunsli_v2 set.
C5_Witness ==
  /\ enc_pc = "done"
  /\ enc_result = "Empty image"
  /\ enc_in.xsize = 0 /\ enc_in.ysize = MaxDim
  /\ \/ enc_in.entry = "PixelsToPik" /\ enc_in.use_brunsli_v2
     \/ enc_in.entry = "OpsinToPik" /\ enc_in.fast_mode

\* Every run of step a so far came before every run of step b.
Before(a, b) ==
  \A i, j \in DOMAIN enc_steps :
    (enc_steps[i] = a /\ enc_steps[j] = b) => i < j

CtanSteps == {"FindBestYToBCorrelation", "FindBestYToXCorrelation"}

QuantSteps ==
  {"AdaptiveQuantizationMap", "SetQuantField", "FindBestQuantization",
   "ScaleToTargetSize", "CompressToTargetSize", "SetQuant(uniform_quant)",
   "FindBestQuantizationHQ"}

FinalSteps == {"ComputeCoefficients", "EncodeToBitstream"}

\* The part of the order that does not involve the Gaborish filter.
OrderButGaborish ==
  /\ Before("AlignImage", "CenterOpsinValues")
  /\ Before("CenterOpsinValues", "GetNoiseParameter")
  /\ \A c \in CtanSteps :
       /\ Before("GetNoiseParameter", c)
       /\ Before("CenterOpsinValues", c)
       /\ Before("GaborishInverse", c)
       /\ \A q \in QuantSteps : Before(c, q)
  /\ \A q \in QuantSteps : \A f \in FinalSteps : Before(q, f)
  /\ Before("ComputeCoefficients", "EncodeToBitstream")

\* C29 as stated: in OpsinToPik the pre-processing (Gaborish filter when
\* kGaborishTransform is set, value centering, alignment padding) completes
\* before the noise estimator runs, the ctan search runs after both, and the
\* quantization search runs before the final ComputeCoefficients and
\* EncodeToBitstream.
C29_PreprocessingBeforeNoise ==
  OrderButGaborish /\ Before("GaborishInverse", "GetNoiseParameter")

\* C29 amended: alignment padding and value centering complete before the
\* noise estimator runs, the Gaborish filter runs after the noise estimator,
\* the ctan search runs after all of them, and the quantization search runs
\* before the final ComputeCoefficients and EncodeToBitstream.
C29_NoiseBeforeGaborish ==
  OrderButGaborish /\ Before("GetNoiseParameter", "GaborishInverse")

\* C29 witness: a finished run that estimated the noise, applied the Gaborish
\* filter, searched the colour correlation and the quantization.
C29_Witness ==
  /\ enc_pc = "done" /\ enc_result = "ok"
  /\ \E i, j, k, l \in DOMAIN enc_steps :
       /\ enc_steps[i] = "GetNoiseParameter"
       /\ enc_steps[j] = "GaborishInverse"
       /\ enc_steps[k] = "FindBestYToXCorrelation"
       /\ enc_steps[l] = "FindBestQuantization"
  /\ enc_steps[Len(enc_steps)] = "EncodeToBitstream"

-----------------------------------------------------------------------------
(*                 Properties of the target-size searches                  *)

\* C2 (as stated): in target-size fast mode, after a run that returned
\* success, the coefficient stream encoded from the final quantizer state is
\* at most target_size bytes long; otherwise the return reports the miss.
C2_FitsOrReports ==
  (ts_pc = "done" /\ ts_in.mode = "ScaleToTargetSize") =>
     (ts_encoded <= ts_in.target_size \/ ts_result # "ok")

\* C2 (amended): the fast mode always returns success, and the coefficient
\* stream encoded from the final quantizer state is at most target_size bytes
\* long whenever one of the halving trials fit.
C2_FitsWhenCandidateFound ==
  (ts_pc = "done" /\ ts_in.mode = "ScaleToTargetSize") =>
     /\ ts_result = "ok"
     /\ found_candidate => ts_encoded <= ts_in.target_size

\* C2 witness: a run that halved, bisected, and ended within the budget.
C2_Witness ==
  /\ ts_pc = "done" /\ ts_in.mode = "ScaleToTargetSize"
  /\ found_candidate
  /\ scale_good < kScaleOne /\ scale_good # scale_bad \div 2
  /\ ts_encoded <= ts_in.target_size

\* C3: a target-size search in which nothing fit returns with the quantizer's
\* DC quant and quant field as they were on entry to the search.
C3_FailedSearchKeepsQuantizer ==
  /\ (ts_pc \in {"encode", "done"} /\ ts_in.mode = "ScaleToTargetSize"
        /\ ~found_candidate) => quantizer = ts_entry
  /\ (ts_pc \in {"encode", "done"} /\ ts_in.mode = "CompressToTargetSize"
        /\ dist_good < 0) => quantizer = ts_entry
  /\ ts_pc # "crashed"

\* C25: ScaleToTargetSize makes at most 10 halving trials and at most 16
\* bisection trials; no scale exceeds 1; during bisection scale_good <
\* scale_bad and the quantizer state of scale_good was measured at a size <=
\* target_size; and on return after bisection the quantizer holds the entry
\* field scaled by scale_good with the DC quant scaled by 0.8 * scale_good +
\* 0.2.
C25_ScaleSearchInvariant ==
  ts_in.mode = "ScaleToTargetSize" =>
    /\ ts_pc = "halve" => ts_i < 10
    /\ ts_pc = "bisect" => ts_i < 16
    /\ ts_pc = "commit" => ts_i <= 16
    /\ scale_good <= kScaleOne /\ scale_bad <= kScaleOne
    /\ ts_pc \in {"bisect", "commit"} =>
         /\ (scale_bad + scale_good) \div 2 <= kScaleOne
         /\ scale_good < scale_bad
         /\ \E m \in measured :
              /\ m.q = ScaleQuantizationMap(scale_good)
              /\ m.size <= ts_in.target_size
    /\ (ts_pc \in {"encode", "done"} /\ found_candidate
          /\ scale_good < kScaleOne) =>
         /\ quantizer.dc =
              (((8 * scale_good + 2 * kScaleOne) \div 10) * ts_entry.dc)
                 \div kScaleOne
         /\ \A b \in Blocks :
              quantizer.ac[b] = (scale_good * ts_entry.ac[b]) \div kScaleOne

\* A run that halved twice, bisected at least twice and returned.
C25_Witness ==
  /\ ts_in.mode = "ScaleToTargetSize" /\ ts_pc = "done"
  /\ found_candidate
  /\ ts_i >= 2
  /\ scale_bad < kScaleOne \div 2
  /\ scale_good > kScaleOne \div 4
  /\ quantizer.dc # ts_entry.dc

\* A run in which all ten halving trials missed the target.
C25_WitnessTenHalvings ==
  /\ ts_in.mode = "ScaleToTargetSize" /\ ts_pc = "encode"
  /\ ~found_candidate /\ ts_i = 10

\* The distances of the trials made so far: the first trial used 1.0, every
\* trial distance lies in [0.3, 32], and dist_bad < dist_good when both are
\* set.
CtsDistances ==
  /\ ts_pc = "entry" => (dist_good < 0 /\ dist_bad < 0 /\ ts_i = 0)
  /\ ts_i = 1 => {dist_good, dist_bad} = {1000000, -1000000}
  /\ \A d \in {dist_good, dist_bad} :
       d >= 0 => (300000 <= d /\ d <= 32000000)
  /\ (dist_good >= 0 /\ dist_bad >= 0) => dist_bad < dist_good

\* The search is left when one of its three tests holds.
CtsStop ==
  \/ dist_good >= 0 /\ dist_bad >= 0 /\ dist_good - dist_bad < 50000
  \/ dist_good >= 0 /\ dist_bad < 0 /\ (dist_good * 8) \div 10 < 300000
  \/ dist_bad >= 0 /\ dist_good < 0 /\ (dist_bad * 5) \div 4 > 32000000

\* A step of the search loop: it leaves the loop, making no trial, exactly
\* when a stop test holds.
CtsStep ==
  ts_pc \in {"entry", "trial"} =>
    IF CtsStop THEN ts_pc' = "cts_commit" /\ ts_i' = ts_i
    ELSE ts_pc' = "trial" /\ ts_i' = ts_i + 1

\* C26: CompressToTargetSize terminates for every sequence of fit / no-fit
\* outcomes: the first trial uses distance 1.0, every trial distance lies in
\* [0.3, 32], dist_bad < dist_good whenever both are set, the search stops as
\* soon as one of its three tests holds, and the search loop and then the
\* call come to an end.
C26_SearchTerminates ==
  /\ []CtsDistances
  /\ [][CtsStep]_tsVars
  /\ <>(ts_pc \notin {"entry", "trial"})
  /\ <>(ts_pc \in {"done", "crashed"})

\* A search that went upwards from 1.0, found a distance that fits, bisected
\* and stopped on an interval shorter than 0.05.
C26_Witness ==
  /\ ts_in.mode = "CompressToTargetSize" /\ ts_pc = "done"
  /\ dist_bad > 1000000
  /\ dist_good > dist_bad /\ dist_good - dist_bad < 50000
  /\ ts_i >= 5

-----------------------------------------------------------------------------
(*                Properties of the quantization searches                  *)

\* C1 (as stated): when FindBestQuantization or FindBestQuantizationHQ has
\* returned, best_d is at most d_i for every iteration i that compared.
C1_BestBelowEveryVisited ==
  sr_pc = "done" => \A d \in visited : best_butteraugli <= d

\* C1 (amended): when either search has returned, best_d is at most
\* max(d_i, D*) for every iteration i that compared, and the quantizer holds
\* best_quant_field.
C1_BestBelowEveryVisitedOrTarget ==
  sr_pc = "done" =>
     /\ \A d \in visited :
          best_butteraugli <= Max(d, sr_in.butteraugli_target)
     /\ quantizer.ac = SrQuantState(0, best_quant_field).ac

\* C1 witness: a search that compared at least twice, once below the target,
\* has returned.
C1_Witness ==
  /\ sr_pc = "done"
  /\ Cardinality(visited) >= 2
  /\ \E d \in visited : d < sr_in.butteraugli_target
  /\ best_butteraugli = sr_in.butteraugli_target

\* C4: FindBestQuantizationHQ terminates: it reaches the final commit and
\* returns.
C4_HQTerminates == <>(sr_pc = "done")

\* The quantization routines other than the single SetQuant(uniform_quant).
ControlLoopSteps ==
  {"FindBestQuantization", "FindBestQuantizationHQ", "ScaleToTargetSize",
   "CompressToTargetSize", "AdaptiveQuantizationMap", "SetQuantField"}

StepsTaken == {enc_steps[i] : i \in DOMAIN enc_steps}

\* C13 as stated: whenever uniform_quant > 0, OpsinToPik sets the quantizer
\* with the scalar uniform_quant and uses none of the search routines or the
\* fast-mode adaptive field, whatever fast_mode, target_size and
\* target_bitrate are.
C13_UniformQuantBypassesAlways ==
  (enc_pc = "encode" /\ enc_in.uniform_quant > 0) =>
    /\ "SetQuant(uniform_quant)" \in StepsTaken
    /\ StepsTaken \cap ControlLoopSteps = {}

\* C13 amended: uniform_quant > 0 bypasses the search when fast_mode is off
\* and neither a target size nor a target bitrate is given; with fast_mode,
\* target_size or target_bitrate set, uniform_quant is not used at all.
C13_UniformQuantBypassesWhenNoOtherMode ==
  (enc_pc = "encode" /\ enc_in.uniform_quant > 0) =>
    IF ~enc_in.fast_mode /\ enc_in.target_size = 0 /\ enc_in.target_bitrate = 0
      THEN /\ "SetQuant(uniform_quant)" \in StepsTaken
           /\ StepsTaken \cap ControlLoopSteps = {}
      ELSE /\ "SetQuant(uniform_quant)" \notin StepsTaken
           /\ StepsTaken \cap ControlLoopSteps # {}

\* C13 witness: the scalar was used although the distance asks for a search.
C13_Witness ==
  /\ enc_pc = "encode"
  /\ enc_in.uniform_quant > 0
  /\ enc_in.butteraugli_distance = 10
  /\ "SetQuant(uniform_quant)" \in StepsTaken
  /\ StepsTaken \cap ControlLoopSteps = {}

-----------------------------------------------------------------------------
(*              Properties of the iterations of FindBestQuantization       *)

\* C16: in an iteration of FindBestQuantization in which SetQuantField
\* reports no change no comparison is made and neither quant_field nor
\* best_quant_field nor best_d is modified.  Stated for the iterations that
\* find tile_distmap assigned by an earlier comparison.
C16_NoChangeIterationModifiesNothing ==
  (sr_last.i >= 0 /\ ~sr_last.compared /\ sr_last.assigned) =>
    /\ quant_field = sr_last.quant_field
    /\ best_quant_field = sr_last.best_quant_field
    /\ best_butteraugli = sr_last.best_butteraugli
    /\ distance = sr_last.d

\* What does hold of such an iteration: no comparison, the best field and
\* its distance untouched.
C16_NoChangeIterationKeepsBest ==
  (sr_last.i >= 0 /\ ~sr_last.compared) =>
    /\ best_quant_field = sr_last.best_quant_field
    /\ best_butteraugli = sr_last.best_butteraugli
    /\ distance = sr_last.d

\* C17 as stated: best_d starts at +infinity, so the first iteration that
\* performs a comparison always records its quant_field as best, with
\* best_d = max(d_i, D*).
C17_FirstComparisonAlwaysRecorded ==
  (sr_last.i = 0 /\ sr_last.compared) =>
    /\ best_quant_field = sr_last.quant_field
    /\ best_butteraugli = Max(sr_last.d, sr_in.butteraugli_target)

\* C17 amended: best_d starts at 1000; a comparing iteration replaces
\* best_quant_field exactly when d_i <= best_d and then sets best_d to
\* max(d_i, D*), best_d is never below D*, and the field committed after the
\* last iteration is best_quant_field.
C17_BestRecordedWhenNotWorse ==
  sr_in.fn = "FindBestQuantization" =>
    /\ best_butteraugli >= sr_in.butteraugli_target
    /\ sr_last.i < 0 =>
         best_butteraugli = 9966 /\ best_quant_field = FbqInitialField(sr_in)
    /\ sr_last.i >= 0 =>
         IF sr_last.compared /\ sr_last.d <= sr_last.best_butteraugli
           THEN /\ best_quant_field = sr_last.quant_field
                /\ best_butteraugli = Max(sr_last.d, sr_in.butteraugli_target)
           ELSE /\ best_quant_field = sr_last.best_quant_field
                /\ best_butteraugli = sr_last.best_butteraugli
    /\ sr_pc = "done" =>
         quantizer = QuantState(kInitialQuantDC(sr_in.butteraugli_target),
                                best_quant_field, kLogGrain)

\* C17 witness: the first comparison was above 1000 and not recorded, a later
\* one equal to best_d was, and its field has been committed.
C17_Witness ==
  /\ sr_pc = "done"
  /\ sr_in.fn = "FindBestQuantization"
  /\ 11000 \in visited
  /\ sr_last.compared
  /\ sr_last.d = sr_last.best_butteraugli
  /\ best_quant_field = sr_last.quant_field
  /\ best_quant_field # FbqInitialField(sr_in)

C19_ArrayReadsInBounds ==
  sr_last.i >= 0 =>
    /\ sr_last.i < 100                    \* kMargins[100]
    /\ sr_last.pow_in_array               \* kPow[7]
    /\ sr_last.i >= 7 => sr_last.margin = 0

\* What does hold: the margins, and the powers of the first seven iterations.
C19_MarginsInBounds ==
  sr_last.i >= 0 =>
    /\ sr_last.i < 100
    /\ sr_last.i >= 7 => sr_last.margin = 0
    /\ sr_last.i < 7 => sr_last.pow_in_array

\* C20: the update step reads tile_distmap only after an iteration of the
\* same call has assigned it from a comparison; when SetQuantField reports
\* no change in iteration 0, no row of the empty tile_distmap is read.
C20_UpdateReadsAssignedDistmap ==
  sr_last.i >= 0 => sr_last.assigned

-----------------------------------------------------------------------------
(*                  Properties of FindBestQuantizationHQ                   *)

HqRanges ==
  sr_in.fn = "FindBestQuantizationHQ" =>
    /\ search_radius \in 0..4
    /\ 500 <= quant_ceil /\ quant_ceil <= 800

HqExpansionStep ==
  sr_in.fn = "FindBestQuantizationHQ" =>
    /\ search_radius' >= search_radius
    /\ hq_quant_dc' >= hq_quant_dc
    /\ quant_ceil' >= quant_ceil
    /\ search_radius' # search_radius => search_radius' = search_radius + 1
    /\ hq_quant_dc' # hq_quant_dc =>
         /\ hq_quant_dc' = hq_quant_dc + 20
         /\ 10 * hq_quant_dc < 4 * quant_ceil - 800
         /\ search_radius' = search_radius /\ quant_ceil' = quant_ceil
         /\ ~(search_radius < 4 /\ (100 * qmax < 99 * quant_ceil
                                      \/ quant_ceil >= 300 + 100 * search_radius))
    /\ quant_ceil' # quant_ceil =>
         /\ quant_ceil' = quant_ceil + 50
         /\ search_radius' = search_radius /\ hq_quant_dc' = hq_quant_dc
         /\ ~(search_radius < 4 /\ (100 * qmax < 99 * quant_ceil
                                      \/ quant_ceil >= 300 + 100 * search_radius))
         /\ ~(10 * hq_quant_dc < 4 * quant_ceil - 800)
    /\ (sr_pc = "while" /\ sr_pc' = "outer") =>       \* the break of line 461
         /\ search_radius = 4
         /\ ~(10 * hq_quant_dc < 4 * quant_ceil - 800)
         /\ quant_ceil = 800

\* C22: throughout FindBestQuantizationHQ search_radius stays in [0, 4] and
\* quant_ceil in [5, 8]; quant_dc is raised, by 0.2, only while
\* quant_dc < 0.4 * quant_ceil - 0.8; none of the three ever decreases; in
\* an expansion step they are tried in the order search_radius, quant_dc,
\* quant_ceil, and the search gives up only when none can be raised.
C22_ExpansionOrderAndRanges == []HqRanges /\ [][HqExpansionStep]_srVars

\* C22 witness: the search gave up with all three at their limits.
C22_Witness ==
  /\ sr_in.fn = "FindBestQuantizationHQ"
  /\ sr_pc = "outer"
  /\ search_radius = 4 /\ quant_ceil = 800 /\ hq_quant_dc >= 240

\* A step through lines 464-473.
HqOuterStep ==
  /\ sr_in.fn = "FindBestQuantizationHQ"
  /\ sr_pc \in {"while", "outer"}
  /\ sr_pc' \in {"loop", "commit"}

ScaledByThreeQuarters ==
  /\ quant_field' = [b \in Blocks |-> (3 * quant_field[b]) \div 4]
  /\ num_stalling_iters' = 0

\* C23 as stated: quant_field is multiplied by 0.75 and the stall counter
\* reset after kMaxOuterIters outer rounds have completed.
C23_ScaledAfterMaxOuterRounds ==
  [][(HqOuterStep /\ ~changed) =>
       /\ (sr_in.slow /\ outer_iter' = kMaxOuterIters) => ScaledByThreeQuarters
       /\ (sr_pc' = "loop") => outer_iter' = kMaxOuterIters]_srVars

\* C23 amended: in really_slow_mode an outer round that ends with nothing
\* changed is followed by the multiplication by 0.75 and the reset when
\* fewer than kMaxOuterIters = 2 rounds have completed, and the next round
\* starts; after the last round, and without really_slow_mode, the search
\* ends with quant_field as it is.  No other step scales the field down.
C23_ScaledBetweenOuterRounds ==
  [][/\ HqOuterStep =>
          IF ~changed /\ sr_in.slow /\ outer_iter + 1 < 2
            THEN /\ ScaledByThreeQuarters
                 /\ outer_iter' = outer_iter + 1
                 /\ sr_pc' = "loop"
            ELSE /\ quant_field' = quant_field
                 /\ sr_pc' = IF changed THEN "loop" ELSE "commit"
      /\ (sr_in.fn = "FindBestQuantizationHQ" /\ ~HqOuterStep) =>
          \A b \in Blocks : quant_field'[b] >= quant_field[b]]_srVars

\* C23 witness: the second outer round has started on the scaled field.
C23_Witness ==
  /\ sr_in.fn = "FindBestQuantizationHQ"
  /\ sr_in.slow
  /\ sr_pc = "loop"
  /\ outer_iter = 1
  /\ num_stalling_iters = 0
  /\ butteraugli_iter > 0

\* C24: the (quant_dc, quant_field) pair FindBestQuantizationHQ installs in
\* the quantizer on exit is the pair that was installed and measured in the
\* iteration that last updated best_quant_field, unless no comparison was
\* made at all.
C24_InstalledPairWasMeasured ==
  (sr_in.fn = "FindBestQuantizationHQ" /\ sr_pc = "done"
     /\ best_installed # <<>>) =>
    quantizer = best_installed

\* What does hold: the AC part of the installed pair is the measured one.
C24_InstalledFieldWasMeasured ==
  (sr_in.fn = "FindBestQuantizationHQ" /\ sr_pc = "done"
     /\ best_installed # <<>>) =>
    quantizer.ac = best_installed.ac

-----------------------------------------------------------------------------
(*                   Properties of the noise parameters                    *)

\* C11: when the SAD threshold is above 0.15 or not positive,
\* alpha, beta and gamma are all 0 whatever quality_coef is, and EncodeNoise
\* writes have_noise = 0 and no parameter field: one byte of zero bits.
C11_RejectedThresholdGivesNoNoise ==
  (noise_pc \in {"encode", "decode", "done"}
     /\ (noise_in.sad_threshold > 150 \/ noise_in.sad_threshold <= 0)) =>
       /\ noise_params = NoiseZero
       /\ noise_pc # "encode" => noise_bits = <<0, 0, 0, 0, 0, 0, 0, 0>>

\* C11 witness: a rejected threshold with a nonzero fit and a reduced
\* quality_coef has been encoded.
C11_Witness ==
  /\ noise_pc = "decode"
  /\ noise_in.sad_threshold = 0
  /\ noise_in.quality_coef = 25
  /\ \A p \in {"alpha", "gamma", "beta"} : noise_in.fit[p] # 0
  /\ Len(noise_bits) = 8

\* sign(v) * round(|v| * 1000) / 1000 of a value held in units of 10^-4.
RoundedToPrecision(v) ==
  IF v >= 0 THEN ((v + 5) \div 10) * 10 ELSE -(((5 - v) \div 10) * 10)

\* C14: DecodeNoise applied to the bytes of EncodeNoise consumes exactly the
\* bytes produced, 1 byte when the three parameters are all zero and 7
\* otherwise, and returns alpha, gamma and beta each as
\* sign * round(|v| * 1000) / 1000 of the value that was encoded.
C14_NoiseRoundTrip ==
  noise_pc = "done" =>
    /\ noise_read = Len(noise_bits)
    /\ Len(noise_bits) = 8 * (IF noise_params = NoiseZero THEN 1 ELSE 7)
    /\ \A p \in {"alpha", "gamma", "beta"} :
         noise_out[p] = RoundedToPrecision(noise_params[p])

\* C14 witness: three different parameters, one negative, one using all 16
\* bits, one that rounds up, have made the round trip.
C14_Witness ==
  /\ noise_pc = "done"
  /\ noise_params = [alpha |-> -12346, gamma |-> 655354, beta |-> 6]
  /\ noise_out = [alpha |-> -12350, gamma |-> 655350, beta |-> 10]
  /\ noise_read = 56

-----------------------------------------------------------------------------
(*                  Properties of FindBestYToBCorrelation                  *)

\* Every AC coefficient of tile t satisfies B = k * Y / 128.
TileProportional(t, k) == \A i \in DOMAIN ytob_in[t].coeffs :
                            ~ytob_in[t].coeffs[i].dc =>
                              ytob_in[t].coeffs[i].b = k * ytob_in[t].coeffs[i].y

\* C12 as stated: if on a tile every AC coefficient satisfies B = k * Y / 128
\* for some k in [0, 256), FindBestYToBCorrelation stores k in ytob_map for
\* that tile.
C12_ProportionalTileStoresK ==
  \A t \in DOMAIN ytob_map :
    TileProportional(t, ytob_in[t].k) => ytob_map[t] = ytob_in[t].k

\* C12 amended: for such a tile the stored factor is either the factor
\* ytob_dc of the whole image or a factor not above k under which every AC
\* coefficient of the tile is below the threshold; it is k when some AC
\* coefficient of the tile has |scaled_y| >= 89.6 and more than 10 of the
\* tile's AC coefficients are not below the threshold under ytob_dc.
C12_ProportionalTileStoresKOrGlobal ==
  \A t \in DOMAIN ytob_map :
    LET k == ytob_in[t].k
        tile == ytob_in[t].coeffs
        total == CountZeros(tile, k)
    IN TileProportional(t, k) =>
         /\ \/ ytob_map[t] = ytob_dc
            \/ ytob_map[t] <= k /\ CountZeros(tile, ytob_map[t]) = total
         /\ ((\E i \in DOMAIN tile : /\ ~tile[i].dc /\ tile[i].n > 0
                                   /\ Abs(tile[i].y) >= kZeroThresh)
               /\ total - CountZeros(tile, ytob_dc) > 10)
             => ytob_map[t] = k

\* C12 witness: a proportional tile with large coefficients has kept its own
\* k although the image's factor differs, next to a tile that was given a
\* smaller factor.
C12_Witness ==
  /\ ytob_pc = "done"
  /\ \E t \in DOMAIN ytob_map :
       /\ TileProportional(t, ytob_in[t].k)
       /\ ytob_map[t] = ytob_in[t].k
       /\ ytob_dc # ytob_in[t].k
  /\ \E t \in DOMAIN ytob_map :
       /\ TileProportional(t, ytob_in[t].k)
       /\ ytob_map[t] < ytob_in[t].k

RECURSIVE AcCount(_, _, _)
\* The AC coefficients among coeffs whose residual under factor k is below
\* the threshold, in the B plane or the X plane.
AcCount(coeffs, plane, k) ==
  IF coeffs = <<>> THEN 0
  ELSE LET c == Head(coeffs)
           zero == IF plane = "b" THEN Abs(c.b - k * c.y) < 896
                   ELSE Abs(c.x - (k - 128) * c.y) < 1664
       IN (IF ~c.dc /\ zero THEN c.n ELSE 0) + AcCount(Tail(coeffs), plane, k)

\* The count of every factor on coeffs.
AcCounts(coeffs, plane) == [k \in 0..255 |-> AcCount(coeffs, plane, k)]

\* k is the smallest factor reaching the maximum of the counts.
BestFactor(counts, k) ==
  /\ \A j \in 0..255 : counts[j] <= counts[k]
  /\ \A j \in 0..(k - 1) : counts[j] < counts[k]

\* The smallest factor reaching the maximum of the counts.
SmallestBest(counts) ==
  LET top == CHOOSE v \in { counts[j] : j \in 0..255 } :
               \A j \in 0..255 : counts[j] <= v
  IN CHOOSE k \in 0..255 :
       counts[k] = top /\ \A j \in 0..(k - 1) : counts[j] # top

\* C28: for every tile, ytob_map holds the tile's own best k only when that
\* k's count in the tile exceeds the tile's count for the global ytob_dc by
\* more than 10, and ytob_dc otherwise; ytox_map holds the tile's own best k
\* only when its tile count is strictly greater than the tile's count for
\* ytox_dc, and ytox_dc otherwise; the best k, of a tile and of the image, is
\* the smallest index reaching the maximum count, and DC coefficients are
\* not counted.
C28_TileFactors ==
  /\ ytob_pc \in {"tiles", "done"} =>
       BestFactor(AcCounts(Concat(ytob_in), "b"), ytob_dc)
  /\ ytox_pc \in {"tiles", "done"} =>
       BestFactor(AcCounts(Concat(ytob_in), "x"), ytox_dc)
  /\ \A t \in DOMAIN ytob_map :
       LET counts == AcCounts(ytob_in[t].coeffs, "b")
           k == SmallestBest(counts)
       IN ytob_map[t] = IF counts[k] > counts[ytob_dc] + 10 THEN k ELSE ytob_dc
  /\ \A t \in DOMAIN ytox_map :
       LET counts == AcCounts(ytob_in[t].coeffs, "x")
           k == SmallestBest(counts)
       IN ytox_map[t] = IF counts[k] > counts[ytox_dc] THEN k ELSE ytox_dc

\* C28 witness: both maps are complete; a tile was given ytob_dc although a
\* factor of its own has a larger count, and of two tiles one kept its own X
\* factor and the other has ytox_dc.
C28_Witness ==
  /\ ytob_pc = "done" /\ ytox_pc = "done"
  /\ \E u \in DOMAIN ytob_map :
       /\ ytob_map[u] = ytob_dc
       /\ \E j \in {0, 3, 200} : AcCount(ytob_in[u].coeffs, "b", j)
                                   > AcCount(ytob_in[u].coeffs, "b", ytob_dc)
  /\ \E t, u \in DOMAIN ytox_map :
       /\ ytox_map[t] # ytox_dc
       /\ ytox_map[u] = ytox_dc

\* A tile kept its own B factor, which is not ytob_dc.
C28_WitnessOwnFactor ==
  /\ ytob_pc = "done"
  /\ \E t \in DOMAIN ytob_map : ytob_map[t] # ytob_dc

-----------------------------------------------------------------------------
(*                         Properties of BytesPerRow                       *)

\* a >= b + c for the 64-bit values a, b and the small number c, the sum
\* taken in the integers.
AtLeastSum(a, b, c) ==
  IF b < 0 /\ b + c >= 0 THEN FALSE         \* b + c is 2^64 or more
  ELSE IF (a < 0) = (b + c < 0) THEN a >= b + c
  ELSE a < 0

RowContract ==
  /\ bytes_per_row % row_in.build.kImageAlign = 0
  /\ AtLeastSum(bytes_per_row, row_in.valid_bytes, 2 * row_in.build.kMaxVectorSize)
  /\ bytes_per_row % 2048 # 0

\* C15 as stated: for every valid_bytes, BytesPerRow<kImageAlign>(valid_bytes)
\* is a multiple of kImageAlign, is at least valid_bytes + 2 * kMaxVectorSize
\* and is not a multiple of 2048.
C15_BytesPerRowForEveryWidth == row_pc = "done" => RowContract

\* C15 amended: the same for every valid_bytes with
\* valid_bytes + 2 * kMaxVectorSize + kImageAlign <= 2^64.
C15_BytesPerRowUnlessWrapped ==
  (row_pc = "done"
     /\ (row_in.valid_bytes >= 0
           \/ row_in.valid_bytes + 2 * row_in.build.kMaxVectorSize
                + row_in.build.kImageAlign <= 0))
    => RowContract

\* C15 witness: a row whose rounded size is 2048 was given one more
\* kImageAlign.
C15_Witness ==
  /\ row_pc = "done"
  /\ row_in.valid_bytes = 1984
  /\ row_in.build = [kMaxVectorSize |-> 32, kImageAlign |-> 128]
  /\ bytes_per_row = 2176

-----------------------------------------------------------------------------
(*               Properties of AdjustQuantVal and DistToPeakMap            *)

\* C21: AdjustQuantVal returns false and leaves q unchanged when
\* q >= 0.999 * quant_max; otherwise it returns true and sets q to
\* 1 / max(1 / quant_max, 1 / q - factor / (d + 1)), and then
\* old q <= new q <= quant_max.  (The quotient is the one of the code
\* rounded down to a hundredth.)
C21_AdjustQuantVal ==
  (fn_pc = "done" /\ fn_in.fn = "AdjustQuantVal") =>
    LET q == fn_in.q
        quant_max == fn_in.quant_max
        \* 1/q - factor/(d+1) = adj_num / adj_den, adj_den > 0, with
        \* factor * q taken in hundredths
        adj_num == 10000 * (fn_in.d + 1) - (fn_in.speed * fn_in.dist * q) \div 100
        adj_den == 100 * q * (fn_in.d + 1)
    IN IF 1000 * q >= 999 * quant_max
         THEN fn_out = [ret |-> FALSE, q |-> q]
         ELSE /\ fn_out.ret
              /\ q <= fn_out.q /\ fn_out.q <= quant_max
              /\ IF adj_num * quant_max <= 100 * adj_den
                   THEN fn_out.q = quant_max
                   ELSE /\ fn_out.q * adj_num <= 100 * adj_den
                        /\ 100 * adj_den - adj_num < fn_out.q * adj_num

\* C21 witness: a step that moved q up, short of quant_max.
C21_Witness ==
  /\ fn_pc = "done" /\ fn_in.fn = "AdjustQuantVal"
  /\ fn_out.ret
  /\ fn_in.q < fn_out.q
  /\ fn_out.q < fn_in.quant_max

\* C27: DistToPeakMap returns, for every pixel, the minimum Chebyshev
\* distance to a peak pixel within local_radius of it, and -1 when no peak is
\* within local_radius; a pixel is a peak when its value exceeds
\* (1 - w) * peak_min + w * local_max, local_max being the maximum of peak_min
\* and the field values at the pixels of the image within local_radius of it.
C27_DistToPeakMap ==
  (fn_pc = "done" /\ fn_in.fn = "DistToPeakMap") =>
    LET c == fn_in
        Pixels == 1..(c.xsize * c.ysize)
        Cheb(p, q) ==
          Max(Abs(((p - 1) \div c.xsize) - ((q - 1) \div c.xsize)),
              Abs(((p - 1) % c.xsize) - ((q - 1) % c.xsize)))
        Near(p) == { q \in Pixels : Cheb(p, q) <= c.local_radius }
        Values(p) == { c.field[q] : q \in Near(p) } \cup {c.peak_min}
        local_max(p) == CHOOSE v \in Values(p) : \A w \in Values(p) : w <= v
        Peaks == { p \in Pixels :
                     10 * c.field[p] >
                       (10 - c.peak_weight) * c.peak_min
                         + c.peak_weight * local_max(p) }
    IN \A p \in Pixels :
         LET ds == { Cheb(p, q) : q \in Peaks \cap Near(p) }
         IN IF ds = {} THEN fn_out[p] = -1
            ELSE fn_out[p] \in ds /\ \A d \in ds : fn_out[p] <= d

\* C27 witness: half weight, radius 1, a pixel next to a peak, a pixel with no
\* peak in reach, and a pixel above peak_min that the weight keeps from
\* being a peak.
C27_Witness ==
  /\ fn_pc = "done" /\ fn_in.fn = "DistToPeakMap"
  /\ fn_in.peak_weight = 5 /\ fn_in.local_radius = 1
  /\ \E p, q, r \in 1..6 :
       /\ fn_out[p] = 0 /\ fn_out[q] = 1 /\ fn_out[r] = -1
  /\ \E p \in 1..6 : fn_in.field[p] > fn_in.peak_min /\ fn_out[p] > 0

-----------------------------------------------------------------------------
(*                         Properties of Avoid2K                           *)

\* Every constructor call so far obtained a counter value of its own.
DistinctCounters ==
  \A i, j \in DOMAIN a2k_seen : i # j => a2k_seen[i] # a2k_seen[j]

\* The three planes of every completed Image3 have pairwise different
\* offsets.
PlanesApart ==
  \A t \in Threads :
    Len(a2k_planes[t]) = 3 =>
      \A i, j \in 1..3 : i # j => a2k_planes[t][i].offset # a2k_planes[t][j].offset

\* Every offset is 256 * (counter mod 8) bytes.
OffsetsInGroups ==
  \A t \in Threads : \A i \in DOMAIN a2k_planes[t] :
    a2k_planes[t][i].offset = 256 * (a2k_planes[t][i].counter % 8)

\* C30: when images are constructed concurrently by several threads, every
\* Image constructor call obtains a distinct value of the shared atomic
\* counter, and the three planes of one Image3(xsize, ysize) receive three
\* pairwise different allocation offsets, the offset being
\* 256 * (counter mod 8) bytes with the counter a 32-bit signed integer.
C30_ConcurrentPlanesApart ==
  DistinctCounters /\ PlanesApart /\ OffsetsInGroups

\* The part that holds: the counter values are distinct, and a thread that
\* constructs its Image3 with no other constructor call in between gets
\* three different offsets.
C30_DistinctAndApartWhenAlone ==
  /\ DistinctCounters
  /\ \A t \in Threads :
       (/\ Len(a2k_planes[t]) = 3
        /\ a2k_planes[t][2].counter = FetchAdd(a2k_planes[t][1].counter)
        /\ a2k_planes[t][3].counter = FetchAdd(a2k_planes[t][2].counter)) =>
         \A i, j \in 1..3 :
           i # j => a2k_planes[t][i].offset # a2k_planes[t][j].offset

-----------------------------------------------------------------------------
(*                           Specifications                                *)

vars == <<pbVars, imgVars, decVars, encVars, rateVars, auxVars>>

NextPB ==
  \/ \E n \in 0..MaxSize : PBResize(n) /\ UNCHANGED <<imgVars, decVars, encVars, rateVars, auxVars>>
  \/ \E i \in 0..MaxSize, v \in 0..MaxByte : PBWriteByte(i, v) /\ UNCHANGED <<imgVars, decVars, encVars, rateVars, auxVars>>
  \/ \E o \in 0..MaxSize, v \in 0..MaxByte : PBWriteWord(o, v) /\ UNCHANGED <<imgVars, decVars, encVars, rateVars, auxVars>>

InitPB == PBInit /\ ImgInit /\ DecIdle /\ EncIdle /\ QuantIdle /\ TsIdle /\ SrIdle /\ AuxIdle

SpecPB == InitPB /\ [][NextPB]_vars

NextImg ==
  \/ \E k \in Objs, x \in Dims, y \in Dims :
        Image3Sized(k, x, y) /\ UNCHANGED <<pbVars, decVars, encVars, rateVars, auxVars>>
  \/ \E k \in Objs, x0, y0 \in Dims :
        \E p1, p2 \in PlanesNear(x0, y0) :
           Image3FromPlanes(k, Plane(x0, y0), p1, p2) /\ UNCHANGED <<pbVars, decVars, encVars, rateVars, auxVars>>
  \/ \E k, j \in Objs : Image3Move(k, j) /\ UNCHANGED <<pbVars, decVars, encVars, rateVars, auxVars>>
  \/ \E k, j \in Objs : Image3Swap(k, j) /\ UNCHANGED <<pbVars, decVars, encVars, rateVars, auxVars>>
  \/ \E k \in Objs, x \in Dims, y \in Dims :
        Image3ShrinkTo(k, x, y) /\ UNCHANGED <<pbVars, decVars, encVars, rateVars, auxVars>>
  \/ \E k \in Objs, idx \in Planes, x \in Dims, y \in Dims :
        Image3ReplacePlane(k, idx, x, y) /\ UNCHANGED <<pbVars, decVars, encVars, rateVars, auxVars>>
  \/ \E k \in Objs : Image3CheckSizesSame(k) /\ UNCHANGED <<pbVars, decVars, encVars, rateVars, auxVars>>

InitImg == PBInit /\ ImgInit /\ DecIdle /\ EncIdle /\ QuantIdle /\ TsIdle /\ SrIdle /\ AuxIdle

SpecImg == InitImg /\ [][NextImg]_vars

NextDec ==
  \/ DecLoadHeader /\ UNCHANGED <<pbVars, imgVars, encVars, rateVars, auxVars>>
  \/ DecDispatch /\ UNCHANGED <<pbVars, imgVars, encVars, rateVars, auxVars>>
  \/ DecValidate /\ UNCHANGED <<pbVars, imgVars, encVars, rateVars, auxVars>>
  \/ DecAlpha /\ UNCHANGED <<pbVars, imgVars, encVars, rateVars, auxVars>>
  \/ DecBitstream /\ UNCHANGED <<pbVars, imgVars, encVars, rateVars, auxVars>>
  \/ DecOutput /\ UNCHANGED <<pbVars, imgVars, encVars, rateVars, auxVars>>
  \/ DecReturn /\ UNCHANGED <<pbVars, imgVars, encVars, rateVars, auxVars>>

InitDec == PBInit /\ ImgInit /\ DecInit /\ EncIdle /\ QuantIdle /\ TsIdle /\ SrIdle /\ AuxIdle

SpecDec == InitDec /\ [][NextDec]_vars

NextEnc ==
  \/ EncPixelsEntry /\ UNCHANGED <<imgVars, decVars, rateVars, auxVars>>
  \/ EncStoreHeader /\ UNCHANGED <<imgVars, decVars, rateVars, auxVars>>
  \/ EncAlpha /\ UNCHANGED <<imgVars, decVars, rateVars, auxVars>>
  \/ EncOpsinCall /\ UNCHANGED <<imgVars, decVars, rateVars, auxVars>>
  \/ EncOpsinEntry /\ UNCHANGED <<imgVars, decVars, rateVars, auxVars>>
  \/ EncNoiseGaborish /\ UNCHANGED <<imgVars, decVars, rateVars, auxVars>>
  \/ EncCtan /\ UNCHANGED <<imgVars, decVars, rateVars, auxVars>>
  \/ EncQuant /\ UNCHANGED <<imgVars, decVars, rateVars, auxVars>>
  \/ EncEncode /\ UNCHANGED <<imgVars, decVars, rateVars, auxVars>>

InitEnc == PBInit /\ ImgInit /\ DecIdle /\ EncInit /\ QuantIdle /\ TsIdle /\ SrIdle /\ AuxIdle

SpecEnc == InitEnc /\ [][NextEnc]_vars

NextTs ==
  \/ ScaleEntry /\ UNCHANGED <<imgVars, decVars, encVars, srVars, auxVars>>
  \/ ScaleHalve /\ UNCHANGED <<imgVars, decVars, encVars, srVars, auxVars>>
  \/ ScaleBisect /\ UNCHANGED <<imgVars, decVars, encVars, srVars, auxVars>>
  \/ ScaleCommit /\ UNCHANGED <<imgVars, decVars, encVars, srVars, auxVars>>
  \/ CtsTrial /\ UNCHANGED <<imgVars, decVars, encVars, srVars, auxVars>>
  \/ CtsCommit /\ UNCHANGED <<imgVars, decVars, encVars, srVars, auxVars>>
  \/ TsEncode /\ UNCHANGED <<imgVars, decVars, encVars, srVars, auxVars>>

InitTs == PBInit /\ ImgInit /\ DecIdle /\ EncIdle /\ TsInit /\ SrIdle /\ AuxIdle

SpecTs == InitTs /\ [][NextTs]_vars

NextCts ==
  \/ CtsTrial /\ UNCHANGED <<imgVars, decVars, encVars, srVars, auxVars>>
  \/ CtsCommit /\ UNCHANGED <<imgVars, decVars, encVars, srVars, auxVars>>
  \/ TsEncode /\ UNCHANGED <<imgVars, decVars, encVars, srVars, auxVars>>

\* The outcomes of the trials are fit and no fit whatever the target is.
InitCts ==
  InitTs /\ ts_in = [mode |-> "CompressToTargetSize", target_size |-> MaxTarget]

\* CompressToTargetSize runs on the calling thread, which is never suspended
\* for good: whenever a step of it is possible, a step is eventually taken.
SpecCts == InitCts /\ [][NextCts]_vars /\ WF_vars(NextCts)

NextSearch ==
  \/ FbqIter /\ UNCHANGED <<pbVars, imgVars, decVars, encVars, tsVars, auxVars>>
  \/ FbqCommit /\ UNCHANGED <<pbVars, imgVars, decVars, encVars, tsVars, auxVars>>
  \/ HqSet /\ UNCHANGED <<pbVars, imgVars, decVars, encVars, tsVars, auxVars>>
  \/ HqWhile /\ UNCHANGED <<pbVars, imgVars, decVars, encVars, tsVars, auxVars>>
  \/ HqOuter /\ UNCHANGED <<pbVars, imgVars, decVars, encVars, tsVars, auxVars>>
  \/ HqCommit /\ UNCHANGED <<pbVars, imgVars, decVars, encVars, tsVars, auxVars>>

InitSearch == PBInit /\ ImgInit /\ DecIdle /\ EncIdle /\ TsIdle /\ SrInit /\ AuxIdle

SpecSearch == InitSearch /\ [][NextSearch]_vars

NextHQ ==
  \/ HqSet /\ UNCHANGED <<pbVars, imgVars, decVars, encVars, tsVars, auxVars>>
  \/ HqWhile /\ UNCHANGED <<pbVars, imgVars, decVars, encVars, tsVars, auxVars>>
  \/ HqOuter /\ UNCHANGED <<pbVars, imgVars, decVars, encVars, tsVars, auxVars>>
  \/ HqCommit /\ UNCHANGED <<pbVars, imgVars, decVars, encVars, tsVars, auxVars>>

InitHQ == InitSearch /\ sr_in.fn = "FindBestQuantizationHQ"

\* FindBestQuantizationHQ runs on one thread that is never suspended for
\* good: whenever a step of it is possible, a step is eventually taken.
SpecHQ == InitHQ /\ [][NextHQ]_vars /\ WF_vars(NextHQ)

NextNoise ==
  \/ NoiseEstimate /\ UNCHANGED <<pbVars, imgVars, decVars, encVars, rateVars, ytobVars, rowVars, pureVars, avoidVars>>
  \/ NoiseEncode /\ UNCHANGED <<pbVars, imgVars, decVars, encVars, rateVars, ytobVars, rowVars, pureVars, avoidVars>>
  \/ NoiseDecode /\ UNCHANGED <<pbVars, imgVars, decVars, encVars, rateVars, ytobVars, rowVars, pureVars, avoidVars>>

InitNoise == PBInit /\ ImgInit /\ DecIdle /\ EncIdle /\ QuantIdle /\ TsIdle /\ SrIdle /\ NoiseInit /\ YtobIdle /\ RowIdle /\ PureIdle /\ AvoidIdle

SpecNoise == InitNoise /\ [][NextNoise]_vars

NextYtob ==
  \/ YtobGlobal /\ UNCHANGED <<pbVars, imgVars, decVars, encVars, rateVars, noiseVars, rowVars, pureVars, avoidVars>>
  \/ YtobTile /\ UNCHANGED <<pbVars, imgVars, decVars, encVars, rateVars, noiseVars, rowVars, pureVars, avoidVars>>
  \/ YtoxGlobal /\ UNCHANGED <<pbVars, imgVars, decVars, encVars, rateVars, noiseVars, rowVars, pureVars, avoidVars>>
  \/ YtoxTile /\ UNCHANGED <<pbVars, imgVars, decVars, encVars, rateVars, noiseVars, rowVars, pureVars, avoidVars>>

InitYtob == PBInit /\ ImgInit /\ DecIdle /\ EncIdle /\ QuantIdle /\ TsIdle /\ SrIdle /\ NoiseIdle /\ YtobInit /\ RowIdle /\ PureIdle /\ AvoidIdle

SpecYtob == InitYtob /\ [][NextYtob]_vars

NextRow ==
  RowCompute /\ UNCHANGED <<pbVars, imgVars, decVars, encVars, rateVars, noiseVars, ytobVars, pureVars, avoidVars>>

InitRow == PBInit /\ ImgInit /\ DecIdle /\ EncIdle /\ QuantIdle /\ TsIdle /\ SrIdle /\ NoiseIdle /\ YtobIdle /\ RowInit /\ PureIdle /\ AvoidIdle

SpecRow == InitRow /\ [][NextRow]_vars

NextPure ==
  \/ ApplyAdjustQuantVal /\ UNCHANGED <<pbVars, imgVars, decVars, encVars, rateVars, noiseVars, ytobVars, rowVars, avoidVars>>
  \/ ApplyDistToPeakMap /\ UNCHANGED <<pbVars, imgVars, decVars, encVars, rateVars, noiseVars, ytobVars, rowVars, avoidVars>>

InitPure == PBInit /\ ImgInit /\ DecIdle /\ EncIdle /\ QuantIdle /\ TsIdle /\ SrIdle /\ NoiseIdle /\ YtobIdle /\ RowIdle /\ PureInit /\ AvoidIdle

SpecPure == InitPure /\ [][NextPure]_vars

NextAvoid ==
  \E t \in Threads :
    ImageConstruct(t) /\ UNCHANGED <<pbVars, imgVars, decVars, encVars, rateVars, noiseVars, ytobVars, rowVars, pureVars>>

InitAvoid == PBInit /\ ImgInit /\ DecIdle /\ EncIdle /\ QuantIdle /\ TsIdle /\ SrIdle /\ NoiseIdle /\ YtobIdle /\ RowIdle /\ PureIdle /\ AvoidInit

SpecAvoid == InitAvoid /\ [][NextAvoid]_vars

====
